---------------------------- MODULE Spec2Model ----------------------------
(***************************************************************************)
(* A model of XML-Diff-Master's core: the line aligner (computeDiff), the  *)
(* formatters (formatXML, formatJSON) and the sorters (sortXML, sortJSON,  *)
(* sortText).                                                               *)
(*                                                                         *)
(* A text is a sequence of characters (one-character strings), so that     *)
(* split, join, trim and the regular expressions of the source are         *)
(* computed character by character.                                        *)
(***************************************************************************)
EXTENDS Integers, Sequences, FiniteSets, TLC

VARIABLES
    oldText,      \* computeDiff: the oldText argument
    newText,      \* computeDiff: the newText argument
    options,      \* computeDiff: the three ignore flags
    changes,      \* computeDiff: what Diff.diffLines returned
    comparison,   \* computeDiff: the ComparisonResult returned
    pc,           \* "input" before the call, "done" after it
    docKind,      \* format/sort: the mode of the side, "xml", "json" or "text"
    content,      \* format/sort: the text of the side
    twin,         \* format/sort: a second text, the same document reordered
    normalizeWhitespace,  \* settings.editor.normalizeWhitespace
    lastOp,       \* format/sort: "none", or the call made: "format", "sort"
    result,       \* format/sort: what the call on content gave back
    twinResult,   \* format/sort: what the call on twin gave back
    semanticDiff, \* executeDiff: the semantic diff switch
    leftContent,  \* useUndo(''): past, present and future of the left side
    rightContent, \* useUndo(''): past, present and future of the right side
    leftMode,     \* the mode of the left side, "xml", "json" or "text"
    rightMode,    \* the mode of the right side
    alerts,       \* the number of alerts shown
    side,         \* the side of the last handler called
    leftTypingRef,    \* leftTypingRef.current
    leftTimeoutRef,   \* leftTimeoutRef.current: no timer, or the last one set
    rightTypingRef,   \* rightTypingRef.current
    rightTimeoutRef,  \* rightTimeoutRef.current
    clock,        \* the time in ms since the application started
    steps,        \* the number of events handled so far
    leftError,        \* the parse error shown for the left side
    rightError,       \* the parse error shown for the right side
    leftValidation,   \* the timers of the left validation effect
    rightValidation,  \* the timers of the right validation effect
    xsdSchema,        \* the text of the schema
    useLibxml,        \* the choice of the validator
    leftSchemaErrors,   \* the schema errors shown for the left side
    rightSchemaErrors,  \* the schema errors shown for the right side
    leftSchema,       \* the runs of the left schema validation effect
    rightSchema,      \* the runs of the right schema validation effect
    viewState,        \* 'EDIT' or 'DIFF'
    isProcessing,     \* the comparison is being computed
    diffMode,         \* the diffMode option
    diffTimers        \* the timers executeDiff set, with what they captured

diffVars == <<oldText, newText, options, changes, comparison, pc>>

docVars == <<docKind, content, twin, normalizeWhitespace, lastOp, result,
             twinResult, semanticDiff>>

sideVars == <<leftContent, rightContent, leftMode, rightMode, alerts, side>>

typingVars == <<leftTypingRef, leftTimeoutRef, rightTypingRef,
                rightTimeoutRef>>

timeVars == <<clock, steps>>

validationVars == <<leftError, rightError, leftValidation, rightValidation>>

schemaVars == <<xsdSchema, useLibxml, leftSchemaErrors, rightSchemaErrors,
                leftSchema, rightSchema>>

viewVars == <<viewState, isProcessing, diffMode, diffTimers>>

effectVars == <<validationVars, schemaVars, viewVars>>

appVars == <<sideVars, typingVars, timeVars, effectVars>>

vars == <<diffVars, docVars, appVars>>

---------------------------------------------------------------------------
(* Bounds of the model                                                     *)

\* longest input text of computeDiff, counted in pieces
MaxPieces == 2

\* largest JSON document, counted in values (objects, arrays, numbers)
MaxJsonNodes == 4

\* longest free-form JSON input, counted in pieces
MaxJsonPieces == 3

\* longest plain text input of sortText, counted in pieces
MaxTextPieces == 4

\* largest XML document, counted in nodes
MaxXmlNodes == 3

\* longest free-form XML input, counted in pieces
MaxXmlPieces == 3

\* largest XML document without attributes, counted in nodes
MaxPlainNodes == 4

\* the maxHistory argument of useUndo, 50 when left out as the application
\* does: a shorter history is filled by shorter runs
maxHistory == 2

\* the most undone states the model lets a history hold
MaxFuture == 2

\* longest input text of computeDiff given line by line, counted in lines
MaxLines == 3

\* the most events of one run of the application
MaxSteps == 6

\* the most changes of the contents in one run of the application
MaxChanges == 1

\* the most renders that change what a schema validation effect depends on
MaxRenders == 4

---------------------------------------------------------------------------
(* Delays of the timers, in ms                                             *)

\* handleLeftChange / handleRightChange: the pause that ends typing
TypingPause == 1000

\* the validation effects: the delay of the recomputation of the error
ValidationDelay == 500

---------------------------------------------------------------------------
(* Strings                                                                 *)

NL == "\n"

\* the characters String.prototype.trim and \s treat as white space
IsSpace(c) == c \in {" ", "\n", "\t", "\r"}

Last(s) == s[Len(s)]

Front(s) == SubSeq(s, 1, Len(s) - 1)

RECURSIVE Concat(_)
\* the concatenation of a sequence of sequences
Concat(ss) ==
    IF ss = <<>> THEN <<>> ELSE Head(ss) \o Concat(Tail(ss))

RECURSIVE TrimStart(_)
TrimStart(s) ==
    IF s # <<>> /\ IsSpace(Head(s)) THEN TrimStart(Tail(s)) ELSE s

RECURSIVE TrimEnd(_)
TrimEnd(s) ==
    IF s # <<>> /\ IsSpace(Last(s)) THEN TrimEnd(Front(s)) ELSE s

\* String.prototype.trim
Trim(s) == TrimEnd(TrimStart(s))

RECURSIVE SplitNL(_)
\* s.split('\n'): never empty, "" splits to [""]
SplitNL(s) ==
    IF \A i \in 1..Len(s) : s[i] # NL
    THEN <<s>>
    ELSE LET i == CHOOSE k \in 1..Len(s) :
                      s[k] = NL /\ \A m \in 1..(k - 1) : s[m] # NL
         IN  <<SubSeq(s, 1, i - 1)>> \o SplitNL(SubSeq(s, i + 1, Len(s)))

RECURSIVE JoinNL(_)
\* lines.join('\n')
JoinNL(lines) ==
    IF lines = <<>> THEN <<>>
    ELSE IF Len(lines) = 1 THEN lines[1]
    ELSE lines[1] \o <<NL>> \o JoinNL(Tail(lines))

EndsWithNL(s) == s # <<>> /\ Last(s) = NL

\* s.replace(/\n$/, '')
StripFinalNL(s) == IF EndsWithNL(s) THEN Front(s) ELSE s

StartsWithAt(s, i, p) ==
    /\ i + Len(p) - 1 <= Len(s)
    /\ \A k \in 1..Len(p) : s[i + k - 1] = p[k]

CommentOpen == <<"<", "!", "-", "-">>

CommentClose == <<"-", "-", ">">>

RECURSIVE StripCommentsFrom(_, _)
\* text.replace(/<!--[\s\S]*?-->/g, '') from position i on: the leftmost
\* "<!--" that has a "-->" after it is removed up to the first such "-->"
StripCommentsFrom(s, i) ==
    IF i > Len(s) THEN <<>>
    ELSE IF /\ StartsWithAt(s, i, CommentOpen)
            /\ \E e \in (i + 4)..Len(s) : StartsWithAt(s, e, CommentClose)
         THEN LET e == CHOOSE k \in (i + 4)..Len(s) :
                           /\ StartsWithAt(s, k, CommentClose)
                           /\ \A m \in (i + 4)..(k - 1) :
                                  ~StartsWithAt(s, m, CommentClose)
              IN  StripCommentsFrom(s, e + 3)
         ELSE <<s[i]>> \o StripCommentsFrom(s, i + 1)

\* the text with its comments left in
StripComments_Kept(s) == s

StripComments(s) == StripCommentsFrom(s, 1)

\* the text with its blank lines left in
DropBlankLines_Kept(s) == s

\* text.split('\n').filter(l => l.trim() !== '').join('\n')
DropBlankLines(s) ==
    JoinNL(SelectSeq(SplitNL(s), LAMBDA l : Trim(l) # <<>>))

\* the preprocessing of computeDiff: comments first, blank lines second
Preprocess(text, ignoreBlankLines, ignoreComments) ==
    LET t1 == IF ignoreComments THEN StripComments(text) ELSE text
    IN  IF ignoreBlankLines THEN DropBlankLines(t1) ELSE t1


---------------------------------------------------------------------------
(* Diff.diffLines of the jsdiff library, as computeDiff calls it           *)
(* (newlineIsToken: false): the text is cut into line tokens, each line    *)
(* keeping its newline, and a shortest edit script between the two token   *)
(* lists is returned as runs of removed, added and common tokens, a        *)
(* removed run before the added run of the same change.  Which of several  *)
(* shortest scripts is returned is the library's tie-breaking: every one   *)
(* of them is a possible result here.                                      *)

RECURSIVE TokenizeLines(_)
\* the line tokens of a split text: every line but the last carries its
\* newline, and an empty last piece (the text ended with a newline) is no token
TokenizeLines(pieces) ==
    IF Len(pieces) = 1
    THEN IF pieces[1] = <<>> THEN <<>> ELSE <<pieces[1]>>
    ELSE <<pieces[1] \o <<NL>>>> \o TokenizeLines(Tail(pieces))

Tokenize(text) == TokenizeLines(SplitNL(text))

\* lineDiff.equals: with ignoreWhitespace the tokens are compared trimmed,
\* the tokens themselves stay as they are
TokenEquals(l, r, ignoreWhitespace) ==
    IF ignoreWhitespace THEN Trim(l) = Trim(r) ELSE l = r

Max(a, b) == IF a >= b THEN a ELSE b

RECURSIVE LcsLen(_, _, _, _, _)
\* the length of a longest common subsequence of o[i..] and n[j..]
LcsLen(o, n, iw, i, j) ==
    IF i > Len(o) \/ j > Len(n) THEN 0
    ELSE IF TokenEquals(o[i], n[j], iw)
         THEN 1 + LcsLen(o, n, iw, i + 1, j + 1)
         ELSE Max(LcsLen(o, n, iw, i + 1, j), LcsLen(o, n, iw, i, j + 1))

RECURSIVE EditScripts(_, _, _, _, _, _)
\* the shortest edit scripts of o[i..] against n[j..], as sequences over
\* "u" (common), "r" (removed), "a" (added); inside one change the removed
\* tokens come first (prev is the operation before this position)
EditScripts(o, n, iw, i, j, prev) ==
    IF i > Len(o) /\ j > Len(n) THEN {<<>>}
    ELSE LET best == LcsLen(o, n, iw, i, j)
             common ==
                 IF /\ i <= Len(o) /\ j <= Len(n)
                    /\ TokenEquals(o[i], n[j], iw)
                    /\ 1 + LcsLen(o, n, iw, i + 1, j + 1) = best
                 THEN {<<"u">> \o e :
                          e \in EditScripts(o, n, iw, i + 1, j + 1, "u")}
                 ELSE {}
             removed ==
                 IF /\ i <= Len(o) /\ prev # "a"
                    /\ LcsLen(o, n, iw, i + 1, j) = best
                 THEN {<<"r">> \o e :
                          e \in EditScripts(o, n, iw, i + 1, j, "r")}
                 ELSE {}
             added ==
                 IF /\ j <= Len(n)
                    /\ LcsLen(o, n, iw, i, j + 1) = best
                 THEN {<<"a">> \o e :
                          e \in EditScripts(o, n, iw, i, j + 1, "a")}
                 ELSE {}
         IN  common \cup removed \cup added

RECURSIVE BuildChanges(_, _, _, _, _)
\* buildValues: the runs of one edit script as Change records; a removed run
\* takes its value from the old tokens, an added or common run from the new
BuildChanges(script, o, n, i, j) ==
    IF script = <<>> THEN <<>>
    ELSE LET op == Head(script)
             run == CHOOSE k \in 1..Len(script) :
                        /\ \A m \in 1..k : script[m] = op
                        /\ k = Len(script) \/ script[k + 1] # op
             value == IF op = "r"
                      THEN Concat(SubSeq(o, i, i + run - 1))
                      ELSE Concat(SubSeq(n, j, j + run - 1))
             change == [added |-> op = "a", removed |-> op = "r",
                        count |-> run, value |-> value]
         IN  <<change>> \o
             BuildChanges(SubSeq(script, run + 1, Len(script)), o, n,
                          IF op = "a" THEN i ELSE i + run,
                          IF op = "r" THEN j ELSE j + run)

\* every result Diff.diffLines(oldStr, newStr, {ignoreWhitespace}) may give
diffLines(oldStr, newStr, ignoreWhitespace) ==
    LET o == Tokenize(oldStr)
        n == Tokenize(newStr)
    IN  {BuildChanges(e, o, n, 1, 1) :
            e \in EditScripts(o, n, ignoreWhitespace, 1, 1, "u")}

---------------------------------------------------------------------------
(* computeDiff                                                             *)

\* the lines of one Change: the value without its final newline, split, and
\* then, when the value ended with a newline and the last line is empty,
\* without that last line
ChangeLines(value) ==
    LET lines == SplitNL(StripFinalNL(value))
    IN  IF EndsWithNL(value) /\ Last(lines) = <<>>
        THEN Front(lines)
        ELSE lines

RECURSIVE UnifiedFrom(_, _, _, _)
\* the unified derivation from change i on, with the running line numbers
UnifiedFrom(chs, i, unifiedOldLineNum, unifiedNewLineNum) ==
    IF i > Len(chs) THEN <<>>
    ELSE LET change == chs[i]
             lines == ChangeLines(change.value)
             recs == [k \in 1..Len(lines) |->
                         IF change.removed
                         THEN [type |-> "removed", value |-> lines[k],
                               oldLineNumber |-> unifiedOldLineNum + k - 1]
                         ELSE IF change.added
                         THEN [type |-> "added", value |-> lines[k],
                               newLineNumber |-> unifiedNewLineNum + k - 1]
                         ELSE [type |-> "unchanged", value |-> lines[k],
                               oldLineNumber |-> unifiedOldLineNum + k - 1,
                               newLineNumber |-> unifiedNewLineNum + k - 1]]
         IN  recs \o
             UnifiedFrom(chs, i + 1,
                 IF change.added THEN unifiedOldLineNum
                 ELSE unifiedOldLineNum + Len(lines),
                 IF change.removed THEN unifiedNewLineNum
                 ELSE unifiedNewLineNum + Len(lines))

Phantom == [type |-> "phantom", value |-> <<>>]

\* the rows of a replacement block: removed lines zipped with added lines,
\* the shorter side padded with phantoms
ReplacementRows(lines, nextLines, leftLineNum, rightLineNum) ==
    LET maxCount == Max(Len(lines), Len(nextLines))
    IN  [left |-> [j \in 1..maxCount |->
                      IF j <= Len(lines)
                      THEN [type |-> "removed", value |-> lines[j],
                            lineNumber |-> leftLineNum + j - 1]
                      ELSE Phantom],
         right |-> [j \in 1..maxCount |->
                      IF j <= Len(nextLines)
                      THEN [type |-> "added", value |-> nextLines[j],
                            lineNumber |-> rightLineNum + j - 1]
                      ELSE Phantom]]

\* a removed run that leaves the right column without its phantom rows
RemovedRows_NoPhantoms(lines, leftLineNum) ==
    [left |-> [j \in 1..Len(lines) |->
                  [type |-> "removed", value |-> lines[j],
                   lineNumber |-> leftLineNum + j - 1]],
     right |-> <<>>]

\* the rows of a removed run that no added run follows
RemovedRows(lines, leftLineNum) ==
    [left |-> [j \in 1..Len(lines) |->
                  [type |-> "removed", value |-> lines[j],
                   lineNumber |-> leftLineNum + j - 1]],
     right |-> [j \in 1..Len(lines) |-> Phantom]]

\* an added run with its columns swapped
AddedRows_Swapped(lines, rightLineNum) ==
    [left |-> [j \in 1..Len(lines) |->
                  [type |-> "added", value |-> lines[j],
                   lineNumber |-> rightLineNum + j - 1]],
     right |-> [j \in 1..Len(lines) |-> Phantom]]

\* the rows of an added run that no removed run precedes
AddedRows(lines, rightLineNum) ==
    [left |-> [j \in 1..Len(lines) |-> Phantom],
     right |-> [j \in 1..Len(lines) |->
                  [type |-> "added", value |-> lines[j],
                   lineNumber |-> rightLineNum + j - 1]]]

\* the rows of an unchanged run
UnchangedRows(lines, leftLineNum, rightLineNum) ==
    [left |-> [j \in 1..Len(lines) |->
                  [type |-> "unchanged", value |-> lines[j],
                   lineNumber |-> leftLineNum + j - 1]],
     right |-> [j \in 1..Len(lines) |->
                  [type |-> "unchanged", value |-> lines[j],
                   lineNumber |-> rightLineNum + j - 1]]]

RECURSIVE SplitFrom(_, _, _, _)
\* the split derivation from change i on: the for loop of computeDiff
SplitFrom(chs, i, leftLineNum, rightLineNum) ==
    IF i > Len(chs) THEN [left |-> <<>>, right |-> <<>>]
    ELSE LET change == chs[i]
             lines == ChangeLines(change.value)
             paired == change.removed /\ i + 1 <= Len(chs) /\ chs[i + 1].added
             nextLines == IF paired THEN ChangeLines(chs[i + 1].value) ELSE <<>>
             rows == IF paired
                     THEN ReplacementRows(lines, nextLines,
                                          leftLineNum, rightLineNum)
                     ELSE IF change.removed
                     THEN RemovedRows(lines, leftLineNum)
                     ELSE IF change.added
                     THEN AddedRows(lines, rightLineNum)
                     ELSE UnchangedRows(lines, leftLineNum, rightLineNum)
             usedLeft == IF change.added THEN 0 ELSE Len(lines)
             usedRight == IF paired THEN Len(nextLines)
                          ELSE IF change.removed THEN 0 ELSE Len(lines)
             rest == SplitFrom(chs, IF paired THEN i + 2 ELSE i + 1,
                               leftLineNum + usedLeft,
                               rightLineNum + usedRight)
         IN  [left |-> rows.left \o rest.left,
              right |-> rows.right \o rest.right]

\* the ComparisonResult computeDiff builds from the changes
computeDiff(chs, mode) ==
    LET split == SplitFrom(chs, 1, 1, 1)
    IN  [leftLines |-> split.left,
         rightLines |-> split.right,
         unifiedLines |-> UnifiedFrom(chs, 1, 1, 1),
         diffMode |-> mode]

---------------------------------------------------------------------------
(* JSON.parse and JSON.stringify of the JavaScript runtime, over the       *)
(* characters the inputs of the model hold: objects, arrays, strings       *)
(* without escapes, non-negative integers and null.  A JavaScript object   *)
(* is the list of its properties in property order: the array-index keys   *)
(* ("0", "9", "10", ...) first, in ascending numeric order, then the other *)
(* keys in the order of their creation.                                    *)

Quote == "\""

DigitChars == <<"0", "1", "2", "3", "4", "5", "6", "7", "8", "9">>

IsDigit(c) == \E d \in 1..Len(DigitChars) : DigitChars[d] = c

DigitVal(c) == (CHOOSE d \in 1..Len(DigitChars) : DigitChars[d] = c) - 1

RECURSIVE NumVal(_)
\* the number a string of digits denotes
NumVal(digits) ==
    IF digits = <<>> THEN 0
    ELSE NumVal(Front(digits)) * Len(DigitChars) + DigitVal(Last(digits))

\* the characters of the model in increasing UTF-16 code unit order
CodeUnitOrder ==
    <<"\t", "\n", "\r", " ", "!", "\"", "&", "'", "-", "/",
      "0", "1", "2", "3", "4", "5", "6", "7", "8", "9",
      ":", ";", "<", "=", ">", "?", "A", "B", "C", "D", "T", "[", "]",
      "a", "b", "c", "d", "g", "l", "m", "n", "o", "p", "q", "s", "t", "u",
      "v", "x", "y", "{", "}">>

CodeUnit(c) == CHOOSE k \in 1..Len(CodeUnitOrder) : CodeUnitOrder[k] = c

RECURSIVE CodeUnitLess(_, _)
\* a < b for two strings, as the default Array.prototype.sort compares them
CodeUnitLess(a, b) ==
    IF b = <<>> THEN FALSE
    ELSE IF a = <<>> THEN TRUE
    ELSE IF Head(a) # Head(b) THEN CodeUnit(Head(a)) < CodeUnit(Head(b))
    ELSE CodeUnitLess(Tail(a), Tail(b))

RECURSIVE SkipWs(_, _)
\* the first position from i on that holds no JSON white space
SkipWs(s, i) ==
    IF i <= Len(s) /\ IsSpace(s[i]) THEN SkipWs(s, i + 1) ELSE i

NoParse == [ok |-> FALSE]

\* a canonical array index: "0", or digits without a leading zero (below
\* 2^32 - 1, which every key of at most nine digits is)
IsArrayIndex(key) ==
    /\ key # <<>>
    /\ Len(key) <= 9
    /\ \A k \in 1..Len(key) : IsDigit(key[k])
    /\ Len(key) = 1 \/ key[1] # "0"

HasKey(props, key) == \E k \in 1..Len(props) : props[k].key = key

\* obj[key] = val on an ordinary object: an existing property keeps its
\* place, a new array-index key goes among the index keys in numeric order,
\* any other new key goes last
SetProp(props, key, val) ==
    IF HasKey(props, key)
    THEN [k \in 1..Len(props) |->
             IF props[k].key = key THEN [key |-> key, val |-> val]
             ELSE props[k]]
    ELSE IF IsArrayIndex(key)
    THEN LET before == Cardinality({k \in 1..Len(props) :
                           /\ IsArrayIndex(props[k].key)
                           /\ NumVal(props[k].key) < NumVal(key)})
         IN  SubSeq(props, 1, before) \o <<[key |-> key, val |-> val]>> \o
             SubSeq(props, before + 1, Len(props))
    ELSE Append(props, [key |-> key, val |-> val])

\* Object.keys(obj)
ObjectKeys(props) == [k \in 1..Len(props) |-> props[k].key]

RECURSIVE ScanString(_, _)
\* the position of the quote that closes a string whose content starts at i;
\* 0 when the text ends or a control character comes first
ScanString(s, i) ==
    IF i > Len(s) THEN 0
    ELSE IF s[i] = Quote THEN i
    ELSE IF s[i] \in {"\n", "\t", "\r"} THEN 0
    ELSE ScanString(s, i + 1)

RECURSIVE ScanDigits(_, _)
\* the first position from i on that holds no digit
ScanDigits(s, i) ==
    IF i <= Len(s) /\ IsDigit(s[i]) THEN ScanDigits(s, i + 1) ELSE i

NullWord == <<"n", "u", "l", "l">>

RECURSIVE ParseValue(_, _)
RECURSIVE ParseMembers(_, _, _)
RECURSIVE ParseElements(_, _, _)

\* the members of an object from position i (a key is expected) on
ParseMembers(s, i, props) ==
    IF i > Len(s) \/ s[i] # Quote THEN NoParse
    ELSE LET close == ScanString(s, i + 1)
             colon == SkipWs(s, close + 1)
         IN  IF close = 0 \/ colon > Len(s) \/ s[colon] # ":" THEN NoParse
             ELSE LET val == ParseValue(s, SkipWs(s, colon + 1))
                      key == SubSeq(s, i + 1, close - 1)
                  IN  IF ~val.ok THEN NoParse
                      ELSE LET after == SkipWs(s, val.next)
                               now == SetProp(props, key, val.v)
                           IN  IF after > Len(s) THEN NoParse
                               ELSE IF s[after] = ","
                               THEN ParseMembers(s, SkipWs(s, after + 1), now)
                               ELSE IF s[after] = "}"
                               THEN [ok |-> TRUE, next |-> after + 1,
                                     v |-> [t |-> "obj", props |-> now]]
                               ELSE NoParse

\* the elements of an array from position i (a value is expected) on
ParseElements(s, i, items) ==
    LET val == ParseValue(s, i)
    IN  IF ~val.ok THEN NoParse
        ELSE LET after == SkipWs(s, val.next)
                 now == Append(items, val.v)
             IN  IF after > Len(s) THEN NoParse
                 ELSE IF s[after] = ","
                 THEN ParseElements(s, SkipWs(s, after + 1), now)
                 ELSE IF s[after] = "]"
                 THEN [ok |-> TRUE, next |-> after + 1,
                       v |-> [t |-> "arr", items |-> now]]
                 ELSE NoParse

\* the JSON value that starts at position i
ParseValue(s, i) ==
    IF i > Len(s) THEN NoParse
    ELSE IF s[i] = "{"
    THEN LET j == SkipWs(s, i + 1)
         IN  IF j <= Len(s) /\ s[j] = "}"
             THEN [ok |-> TRUE, next |-> j + 1,
                   v |-> [t |-> "obj", props |-> <<>>]]
             ELSE ParseMembers(s, j, <<>>)
    ELSE IF s[i] = "["
    THEN LET j == SkipWs(s, i + 1)
         IN  IF j <= Len(s) /\ s[j] = "]"
             THEN [ok |-> TRUE, next |-> j + 1,
                   v |-> [t |-> "arr", items |-> <<>>]]
             ELSE ParseElements(s, j, <<>>)
    ELSE IF s[i] = Quote
    THEN LET close == ScanString(s, i + 1)
         IN  IF close = 0 THEN NoParse
             ELSE [ok |-> TRUE, next |-> close + 1,
                   v |-> [t |-> "str", v |-> SubSeq(s, i + 1, close - 1)]]
    ELSE IF IsDigit(s[i])
    THEN LET stop == IF s[i] = "0" THEN i + 1 ELSE ScanDigits(s, i)
         IN  [ok |-> TRUE, next |-> stop,
              v |-> [t |-> "num", v |-> SubSeq(s, i, stop - 1)]]
    ELSE IF StartsWithAt(s, i, NullWord)
    THEN [ok |-> TRUE, next |-> i + Len(NullWord), v |-> [t |-> "null"]]
    ELSE NoParse

\* JSON.parse(text): ok is FALSE where JSON.parse throws a SyntaxError
JsonParse(text) ==
    LET val == ParseValue(text, SkipWs(text, 1))
    IN  IF val.ok /\ SkipWs(text, val.next) > Len(text)
        THEN [ok |-> TRUE, v |-> val.v]
        ELSE NoParse

Spaces(n) == [k \in 1..n |-> " "]

RECURSIVE Stringify(_, _)
RECURSIVE StringifyItems(_, _, _)
RECURSIVE StringifyProps(_, _, _)

\* the elements of an array from element k on, one per line
StringifyItems(items, k, indent) ==
    Spaces(indent) \o Stringify(items[k], indent) \o
    (IF k = Len(items) THEN <<>>
     ELSE <<",", NL>> \o StringifyItems(items, k + 1, indent))

\* the properties of an object from property k on, one per line
StringifyProps(props, k, indent) ==
    Spaces(indent) \o <<Quote>> \o props[k].key \o <<Quote, ":", " ">> \o
    Stringify(props[k].val, indent) \o
    (IF k = Len(props) THEN <<>>
     ELSE <<",", NL>> \o StringifyProps(props, k + 1, indent))

\* JSON.stringify(value, null, 2) at the given indentation
Stringify(v, indent) ==
    IF v.t = "num" THEN v.v
    ELSE IF v.t = "str" THEN <<Quote>> \o v.v \o <<Quote>>
    ELSE IF v.t = "null" THEN NullWord
    ELSE IF v.t = "arr"
    THEN IF v.items = <<>> THEN <<"[", "]">>
         ELSE <<"[", NL>> \o StringifyItems(v.items, 1, indent + 2) \o
              <<NL>> \o Spaces(indent) \o <<"]">>
    ELSE IF v.props = <<>> THEN <<"{", "}">>
         ELSE <<"{", NL>> \o StringifyProps(v.props, 1, indent + 2) \o
              <<NL>> \o Spaces(indent) \o <<"}">>

---------------------------------------------------------------------------
(* utils/json.ts                                                           *)

\* what a call gives back: a returned string, or a thrown Error
Returned(text) == [threw |-> FALSE, text |-> text]

Thrown == [threw |-> TRUE, text |-> <<>>]

\* formatJSON(json)
formatJSON(json) ==
    IF Trim(json) = <<>> THEN Returned(<<>>)
    ELSE LET parsed == JsonParse(json)
         IN  IF parsed.ok THEN Returned(Stringify(parsed.v, 0))
             ELSE Returned(json)

\* the characters of the model in the order of the collation that
\* String.prototype.localeCompare applies (white space, punctuation, digits,
\* letters), the two cases of a letter at the same primary place
CollationOrder ==
    <<{"\t"}, {"\n"}, {"\r"}, {" "}, {"-"}, {";"}, {":"}, {"!"}, {"?"},
      {"'"}, {"\""}, {"["}, {"]"}, {"{"}, {"}"}, {"/"}, {"&"},
      {"<"}, {"="}, {">"},
      {"0"}, {"1"}, {"2"}, {"3"}, {"4"}, {"5"}, {"6"}, {"7"}, {"8"}, {"9"},
      {"a", "A"}, {"b", "B"}, {"c", "C"}, {"d", "D"}, {"g"}, {"l"}, {"m"},
      {"n"}, {"o"}, {"p"}, {"q"}, {"s"}, {"t", "T"}, {"u"}, {"v"}, {"x"},
      {"y"}>>

PrimaryWeight(c) == CHOOSE k \in 1..Len(CollationOrder) : c \in CollationOrder[k]

\* lower case sorts before upper case when nothing else differs
CaseWeight(c) == IF c \in {"A", "B", "C", "D", "T"} THEN 1 ELSE 0

RECURSIVE WeightsLess(_, _)
\* lexicographic order of two sequences of weights
WeightsLess(a, b) ==
    IF b = <<>> THEN FALSE
    ELSE IF a = <<>> THEN TRUE
    ELSE IF Head(a) # Head(b) THEN Head(a) < Head(b)
    ELSE WeightsLess(Tail(a), Tail(b))

\* a.localeCompare(b) < 0: the primary weights decide, the case breaks ties
LocaleLess(a, b) ==
    LET pa == [k \in 1..Len(a) |-> PrimaryWeight(a[k])]
        pb == [k \in 1..Len(b) |-> PrimaryWeight(b[k])]
    IN  IF pa # pb THEN WeightsLess(pa, pb)
        ELSE WeightsLess([k \in 1..Len(a) |-> CaseWeight(a[k])],
                         [k \in 1..Len(b) |-> CaseWeight(b[k])])

\* the comparison a sort call uses: "codeUnit" for sort() without a
\* comparator, "locale" for (a, b) => a.localeCompare(b)
KeyLess(order, a, b) ==
    IF order = "codeUnit" THEN CodeUnitLess(a, b) ELSE LocaleLess(a, b)

RECURSIVE InsertSorted(_, _, _)
\* x put into the sorted list of [key, item] after every element whose key
\* is not greater
InsertSorted(sorted, x, order) ==
    IF sorted = <<>> THEN <<x>>
    ELSE IF KeyLess(order, x.key, Head(sorted).key) THEN <<x>> \o sorted
    ELSE <<Head(sorted)>> \o InsertSorted(Tail(sorted), x, order)

RECURSIVE SortBy(_, _)
\* Array.prototype.sort over [key, item] records: a stable sort by key
SortBy(list, order) ==
    IF list = <<>> THEN <<>>
    ELSE InsertSorted(SortBy(Front(list), order), Last(list), order)

\* Object.keys(obj) without the sort
SortedKeys_Unsorted(props) ==
    [k \in 1..Len(props) |-> props[k].key]

\* Object.keys(obj).sort()
SortedKeys(props) ==
    LET sorted == SortBy([k \in 1..Len(props) |->
                             [key |-> props[k].key, item |-> props[k].key]],
                         "codeUnit")
    IN  [k \in 1..Len(sorted) |-> sorted[k].item]

PropOf(props, key) ==
    props[CHOOSE k \in 1..Len(props) : props[k].key = key].val

RECURSIVE sortDeep(_)
RECURSIVE SortDeepProps(_, _, _)

\* sortedKeys.forEach(key => { sortedObj[key] = sortDeep(obj[key]) })
SortDeepProps(props, keys, sortedObj) ==
    IF keys = <<>> THEN sortedObj
    ELSE SortDeepProps(props, Tail(keys),
             SetProp(sortedObj, Head(keys), sortDeep(PropOf(props, Head(keys)))))

\* sortDeep of sortJSON
sortDeep(obj) ==
    IF obj.t = "arr"
    THEN [t |-> "arr",
          items |-> [k \in 1..Len(obj.items) |-> sortDeep(obj.items[k])]]
    ELSE IF obj.t = "obj"
    THEN [t |-> "obj",
          props |-> SortDeepProps(obj.props, SortedKeys(obj.props), <<>>)]
    ELSE obj

\* sortJSON(json)
sortJSON(json) ==
    IF Trim(json) = <<>> THEN Returned(<<>>)
    ELSE LET parsed == JsonParse(json)
         IN  IF parsed.ok THEN Returned(Stringify(sortDeep(parsed.v), 0))
             ELSE Returned(json)

---------------------------------------------------------------------------
(* DOMParser.parseFromString(xml, 'application/xml'), the browser's XML    *)
(* parser, for documents made of an optional XML declaration, elements,    *)
(* attributes, text, the predefined entities, the character reference of   *)
(* the line feed, comments and CDATA sections.  Processing instructions    *)
(* and document types are outside the documents modelled.                  *)
(* A node is [k |-> "element", tagName, attributes, childNodes],           *)
(* [k |-> "text", data], [k |-> "cdata", data] or [k |-> "comment", data]; *)
(* an attribute is [name, value].                                          *)

Apos == "'"

NameChars == {"a", "b", "c", "d", "p", "A", "B"}

\* the XML declaration of the documents modelled: <?xml version="1.0"?>
XmlDecl ==
    <<"<", "?", "x", "m", "l", " ", "v", "e", "r", "s", "i", "o", "n", "=",
      Quote, "1", ".", "0", Quote, "?", ">">>

CDataOpen == <<"<", "!", "[", "C", "D", "A", "T", "A", "[">>

CDataClose == <<"]", "]", ">">>

\* the references the parser resolves, each with the text it stands for
References ==
    {[ref |-> <<"&", "a", "m", "p", ";">>, text |-> <<"&">>],
     [ref |-> <<"&", "l", "t", ";">>, text |-> <<"<">>],
     [ref |-> <<"&", "g", "t", ";">>, text |-> <<">">>],
     [ref |-> <<"&", "q", "u", "o", "t", ";">>, text |-> <<Quote>>],
     [ref |-> <<"&", "a", "p", "o", "s", ";">>, text |-> <<Apos>>],
     [ref |-> <<"&", "#", "1", "0", ";">>, text |-> <<NL>>],
     [ref |-> <<"&", "#", "x", "A", ";">>, text |-> <<NL>>]}

ParseError == [ok |-> FALSE, next |-> 0]

HasReferenceAt(s, i) == \E r \in References : StartsWithAt(s, i, r.ref)

ReferenceAt(s, i) == CHOOSE r \in References : StartsWithAt(s, i, r.ref)

RECURSIVE ScanName(_, _)
\* the name that starts at position i, empty when none does
ScanName(s, i) ==
    IF i <= Len(s) /\ s[i] \in NameChars
    THEN <<s[i]>> \o ScanName(s, i + 1)
    ELSE <<>>

RECURSIVE SkipSpace(_, _)
\* the first position from i on that holds no white space
SkipSpace(s, i) ==
    IF i <= Len(s) /\ IsSpace(s[i]) THEN SkipSpace(s, i + 1) ELSE i

\* the first position from i on where p starts, 0 when there is none
IndexOf(s, i, p) ==
    IF \E k \in i..Len(s) : StartsWithAt(s, k, p)
    THEN CHOOSE k \in i..Len(s) :
             /\ StartsWithAt(s, k, p)
             /\ \A m \in i..(k - 1) : ~StartsWithAt(s, m, p)
    ELSE 0

RECURSIVE ScanAttrValue(_, _, _, _)
\* an attribute value up to its closing quote: references are resolved,
\* literal white space becomes a space, "<" is not allowed
ScanAttrValue(s, i, quote, acc) ==
    IF i > Len(s) THEN ParseError
    ELSE IF s[i] = quote THEN [ok |-> TRUE, next |-> i + 1, value |-> acc]
    ELSE IF s[i] = "<" THEN ParseError
    ELSE IF s[i] = "&"
    THEN IF HasReferenceAt(s, i)
         THEN LET r == ReferenceAt(s, i)
              IN  ScanAttrValue(s, i + Len(r.ref), quote, acc \o r.text)
         ELSE ParseError
    ELSE IF IsSpace(s[i]) THEN ScanAttrValue(s, i + 1, quote, acc \o <<" ">>)
    ELSE ScanAttrValue(s, i + 1, quote, acc \o <<s[i]>>)

RECURSIVE ScanAttributes(_, _, _)
\* the attributes of a start tag from position i on, up to its ">" or "/>"
ScanAttributes(s, i, acc) ==
    LET j == SkipSpace(s, i)
        name == ScanName(s, j)
        eq == SkipSpace(s, j + Len(name))
        open == SkipSpace(s, eq + 1)
    IN  IF name = <<>> THEN [ok |-> TRUE, next |-> j, attributes |-> acc]
        ELSE IF j = i THEN ParseError
        ELSE IF \E k \in 1..Len(acc) : acc[k].name = name THEN ParseError
        ELSE IF ~(eq <= Len(s) /\ s[eq] = "=") THEN ParseError
        ELSE IF ~(open <= Len(s) /\ s[open] \in {Quote, Apos}) THEN ParseError
        ELSE LET v == ScanAttrValue(s, open + 1, s[open], <<>>)
             IN  IF ~v.ok THEN ParseError
                 ELSE ScanAttributes(s, v.next,
                          Append(acc, [name |-> name, value |-> v.value]))

RECURSIVE ScanText(_, _, _)
\* character data up to the next "<": references are resolved
ScanText(s, i, acc) ==
    IF i > Len(s) \/ s[i] = "<" THEN [ok |-> TRUE, next |-> i, data |-> acc]
    ELSE IF StartsWithAt(s, i, CDataClose) THEN ParseError
    ELSE IF s[i] = "&"
    THEN IF HasReferenceAt(s, i)
         THEN LET r == ReferenceAt(s, i)
              IN  ScanText(s, i + Len(r.ref), acc \o r.text)
         ELSE ParseError
    ELSE ScanText(s, i + 1, acc \o <<s[i]>>)

\* the comment that starts at position i
ParseComment(s, i) ==
    LET e == IndexOf(s, i + 4, <<"-", "-">>)
    IN  IF e = 0 \/ ~StartsWithAt(s, e, CommentClose) THEN ParseError
        ELSE [ok |-> TRUE, next |-> e + 3,
              node |-> [k |-> "comment", data |-> SubSeq(s, i + 4, e - 1)]]

\* the CDATA section that starts at position i
ParseCData(s, i) ==
    LET e == IndexOf(s, i + 9, CDataClose)
    IN  IF e = 0 THEN ParseError
        ELSE [ok |-> TRUE, next |-> e + 3,
              node |-> [k |-> "cdata", data |-> SubSeq(s, i + 9, e - 1)]]

RECURSIVE ParseElement(_, _)
RECURSIVE ParseContent(_, _, _)

\* the node just parsed joins the children, and the content goes on
AppendNode(s, acc, n) ==
    IF ~n.ok THEN ParseError
    ELSE ParseContent(s, n.next, Append(acc, n.node))

\* the character data just scanned, as a text node
TextNode(t) ==
    IF ~t.ok THEN ParseError
    ELSE [ok |-> TRUE, next |-> t.next,
          node |-> [k |-> "text", data |-> t.data]]

\* the content of an element from position i on, up to its end tag
ParseContent(s, i, acc) ==
    IF i > Len(s) THEN ParseError
    ELSE IF StartsWithAt(s, i, <<"<", "/">>)
    THEN [ok |-> TRUE, next |-> i, childNodes |-> acc]
    ELSE IF s[i] # "<" THEN AppendNode(s, acc, TextNode(ScanText(s, i, <<>>)))
    ELSE IF StartsWithAt(s, i, CommentOpen)
    THEN AppendNode(s, acc, ParseComment(s, i))
    ELSE IF StartsWithAt(s, i, CDataOpen)
    THEN AppendNode(s, acc, ParseCData(s, i))
    ELSE AppendNode(s, acc, ParseElement(s, i))

\* the element once its end tag is read up to the name: close is the
\* position behind the name and the white space after it
CloseElement(s, tagName, attributes, childNodes, close) ==
    IF ~StartsWithAt(s, close, <<">">>) THEN ParseError
    ELSE [ok |-> TRUE, next |-> close + 1,
          node |-> [k |-> "element", tagName |-> tagName,
                    attributes |-> attributes, childNodes |-> childNodes]]

\* the element once its content is parsed: the end tag has to name it
AfterContent(s, tagName, attributes, inner) ==
    IF ~inner.ok THEN ParseError
    ELSE IF ScanName(s, inner.next + 2) # tagName THEN ParseError
    ELSE CloseElement(s, tagName, attributes, inner.childNodes,
                      SkipSpace(s, inner.next + 2 + Len(tagName)))

\* the element once the attributes of its start tag are read
AfterAttributes(s, tagName, attrs) ==
    IF ~attrs.ok THEN ParseError
    ELSE IF StartsWithAt(s, attrs.next, <<"/", ">">>)
    THEN [ok |-> TRUE, next |-> attrs.next + 2,
          node |-> [k |-> "element", tagName |-> tagName,
                    attributes |-> attrs.attributes, childNodes |-> <<>>]]
    ELSE IF ~StartsWithAt(s, attrs.next, <<">">>) THEN ParseError
    ELSE AfterContent(s, tagName, attrs.attributes,
                      ParseContent(s, attrs.next + 1, <<>>))

\* the element once the name of its start tag is read
AfterName(s, i, tagName) ==
    IF tagName = <<>> THEN ParseError
    ELSE AfterAttributes(s, tagName,
                         ScanAttributes(s, i + 1 + Len(tagName), <<>>))

\* the element whose start tag opens at position i
ParseElement(s, i) == AfterName(s, i, ScanName(s, i + 1))

RECURSIVE ParseMisc(_, _, _, _)

\* the top-level node just parsed joins the document
AppendMisc(s, acc, rooted, n) ==
    IF ~n.ok THEN ParseError
    ELSE ParseMisc(s, n.next, Append(acc, n.node), rooted)

\* the top level of a document from position i on: comments and white
\* space around exactly one root element
ParseMisc(s, i, acc, rooted) ==
    LET j == SkipSpace(s, i)
    IN  IF j > Len(s)
        THEN IF rooted THEN [ok |-> TRUE, next |-> j, childNodes |-> acc]
             ELSE ParseError
        ELSE IF StartsWithAt(s, j, CommentOpen)
        THEN AppendMisc(s, acc, rooted, ParseComment(s, j))
        ELSE IF s[j] = "<" /\ ~rooted /\ ~StartsWithAt(s, j, CDataOpen)
        THEN AppendMisc(s, acc, TRUE, ParseElement(s, j))
        ELSE ParseError

\* the document of a parse: ok FALSE stands for a document that holds a
\* parsererror element
DocumentOf(declared, top) ==
    IF top.ok
    THEN [ok |-> TRUE, declared |-> declared, childNodes |-> top.childNodes]
    ELSE [ok |-> FALSE, declared |-> FALSE, childNodes |-> <<>>]

\* parser.parseFromString(xml, 'application/xml')
parseFromString(xml) ==
    DocumentOf(StartsWithAt(xml, 1, XmlDecl),
               ParseMisc(xml,
                         IF StartsWithAt(xml, 1, XmlDecl) THEN Len(XmlDecl) + 1
                         ELSE 1,
                         <<>>, FALSE))

---------------------------------------------------------------------------
(* formatXML                                                               *)

IsElement(node) == node.k = "element"

IsText(node) == node.k = "text"

\* escapeXml(str): &, <, > and " become entities
escapeXml(str) ==
    Concat([k \in 1..Len(str) |->
               IF str[k] = "&" THEN <<"&", "a", "m", "p", ";">>
               ELSE IF str[k] = "<" THEN <<"&", "l", "t", ";">>
               ELSE IF str[k] = ">" THEN <<"&", "g", "t", ";">>
               ELSE IF str[k] = Quote THEN <<"&", "q", "u", "o", "t", ";">>
               ELSE <<str[k]>>])

\* xml.match(/^<\?xml\s+[^?]+\?>/i): the text matched, empty for no match
xmlDeclaration(xml) ==
    LET q == IndexOf(xml, 6, <<"?">>)
    IN  IF /\ StartsWithAt(xml, 1, <<"<", "?", "x", "m", "l">>)
           /\ Len(xml) >= 6 /\ IsSpace(xml[6])
           /\ q >= 8
           /\ StartsWithAt(xml, q, <<"?", ">">>)
        THEN SubSeq(xml, 1, q + 1)
        ELSE <<>>

\* hasMixedContent(node): some direct text child is not all white space
hasMixedContent(node) ==
    \E k \in 1..Len(node.childNodes) :
        IsText(node.childNodes[k]) /\ Trim(node.childNodes[k].data) # <<>>

RECURSIVE CollapseSpace(_)
\* text.replace(/\s+/g, ' ')
CollapseSpace(s) ==
    IF s = <<>> THEN <<>>
    ELSE IF IsSpace(Head(s)) THEN <<" ">> \o CollapseSpace(TrimStart(s))
    ELSE <<Head(s)>> \o CollapseSpace(Tail(s))

\* the text child trimmed at both ends wherever it stands
MixedText_TrimEverywhere(text, i, n, normalize) ==
    IF normalize THEN Trim(CollapseSpace(text)) ELSE text

\* the text child at index i of n children, as a mixed element shows it
MixedText(text, i, n, normalize) ==
    LET t0 == IF normalize THEN CollapseSpace(text) ELSE text
        t1 == IF normalize /\ i = 1 THEN TrimStart(t0) ELSE t0
    IN  IF normalize /\ i = n THEN TrimEnd(t1) ELSE t1

\* the start tag of an element up to its last attribute
StartTag(el, indent) ==
    indent \o <<"<">> \o el.tagName \o
    Concat([k \in 1..Len(el.attributes) |->
               <<" ">> \o el.attributes[k].name \o <<"=", Quote>> \o
               escapeXml(el.attributes[k].value) \o <<Quote>>])

EndTag(el) == <<"<", "/">> \o el.tagName \o <<">">>

RECURSIVE serialize(_, _, _)
\* serialize(node, indent) with settings.editor.normalizeWhitespace
serialize(node, indent, normalize) ==
    IF node.k = "element"
    THEN LET children == node.childNodes
             n == Len(children)
         IN  IF n = 0 THEN StartTag(node, indent) \o <<"/", ">">>
             ELSE IF hasMixedContent(node)
             THEN StartTag(node, indent) \o <<">">> \o
                  Concat([i \in 1..n |->
                             IF IsText(children[i])
                             THEN escapeXml(MixedText(children[i].data, i, n,
                                                      normalize))
                             ELSE serialize(children[i], <<>>, normalize)]) \o
                  EndTag(node)
             ELSE StartTag(node, indent) \o <<">", NL>> \o
                  Concat([i \in 1..n |->
                             LET serialized ==
                                     serialize(children[i],
                                               indent \o <<" ", " ">>, normalize)
                             IN  IF serialized # <<>> THEN serialized \o <<NL>>
                                 ELSE <<>>]) \o
                  indent \o EndTag(node)
    ELSE IF node.k = "text"
    THEN LET text == Trim(node.data)
         IN  IF text # <<>> THEN indent \o escapeXml(text) ELSE <<>>
    ELSE IF node.k = "cdata" THEN indent \o CDataOpen \o node.data \o CDataClose
    ELSE indent \o CommentOpen \o node.data \o CommentClose

\* serialize(doc): the top-level nodes, one to a line
serializeDocument(doc, normalize) ==
    JoinNL(SelectSeq([k \in 1..Len(doc.childNodes) |->
                         serialize(doc.childNodes[k], <<>>, normalize)],
                     LAMBDA line : line # <<>>))

\* the declaration of the input put back in front of a serialized document
\* that does not start with one
WithDeclaration(xml, serialized) ==
    IF /\ xmlDeclaration(xml) # <<>>
       /\ ~StartsWithAt(Trim(serialized), 1, <<"<", "?", "x", "m", "l">>)
    THEN xmlDeclaration(xml) \o <<NL>> \o serialized
    ELSE serialized

\* the parsed document with the parse error passed on to the caller
FormatParsed_FailHard(xml, doc, normalize) ==
    IF ~doc.ok THEN Thrown
    ELSE Returned(WithDeclaration(xml, serializeDocument(doc, normalize)))

\* formatXML once the input is parsed: the input itself when it holds a
\* parsererror, the document serialized otherwise
FormatParsed(xml, doc, normalize) ==
    IF ~doc.ok THEN Returned(xml)
    ELSE Returned(WithDeclaration(xml, serializeDocument(doc, normalize)))

\* formatXML(xml, settings)
formatXML(xml, normalize) ==
    IF Trim(xml) = <<>> THEN Returned(<<>>)
    ELSE FormatParsed(xml, parseFromString(xml), normalize)

---------------------------------------------------------------------------
(* sortXML                                                                 *)

\* the escaping XMLSerializer applies to text
EscapeText(str) ==
    Concat([k \in 1..Len(str) |->
               IF str[k] = "&" THEN <<"&", "a", "m", "p", ";">>
               ELSE IF str[k] = "<" THEN <<"&", "l", "t", ";">>
               ELSE IF str[k] = ">" THEN <<"&", "g", "t", ";">>
               ELSE <<str[k]>>])

\* the escaping XMLSerializer applies to attribute values: the line feed
\* is written as a character reference
EscapeAttr(str) ==
    Concat([k \in 1..Len(str) |->
               IF str[k] = NL THEN <<"&", "#", "x", "A", ";">>
               ELSE escapeXml(<<str[k]>>)])

RECURSIVE SerializeNode(_)
\* XMLSerializer on a node: nothing is added between the nodes
SerializeNode(node) ==
    IF node.k = "element"
    THEN <<"<">> \o node.tagName \o
         Concat([k \in 1..Len(node.attributes) |->
                    <<" ">> \o node.attributes[k].name \o <<"=", Quote>> \o
                    EscapeAttr(node.attributes[k].value) \o <<Quote>>]) \o
         (IF node.childNodes = <<>> THEN <<"/", ">">>
          ELSE <<">">> \o
               Concat([k \in 1..Len(node.childNodes) |->
                          SerializeNode(node.childNodes[k])]) \o
               EndTag(node))
    ELSE IF node.k = "text" THEN EscapeText(node.data)
    ELSE IF node.k = "cdata" THEN CDataOpen \o node.data \o CDataClose
    ELSE CommentOpen \o node.data \o CommentClose

\* new XMLSerializer().serializeToString(doc): a declared document gets
\* its declaration back
serializeToString(doc) ==
    (IF doc.declared THEN XmlDecl ELSE <<>>) \o
    Concat([k \in 1..Len(doc.childNodes) |-> SerializeNode(doc.childNodes[k])])

\* attrs.sort((a, b) => a.name.localeCompare(b.name))
SortAttributes(attrs) ==
    LET sorted == SortBy([k \in 1..Len(attrs) |->
                             [key |-> attrs[k].name, item |-> attrs[k]]],
                         "locale")
    IN  [k \in 1..Len(sorted) |-> sorted[k].item]

\* the children sorted by the code units of their tag names
SortChildren_ByCodeUnit(children) ==
    LET sorted == SortBy([k \in 1..Len(children) |->
                             [key |-> children[k].tagName,
                              item |-> children[k]]],
                         "codeUnit")
    IN  [k \in 1..Len(sorted) |-> sorted[k].item]

\* children.sort((a, b) => a.tagName.localeCompare(b.tagName))
SortChildren(children) ==
    LET sorted == SortBy([k \in 1..Len(children) |->
                             [key |-> children[k].tagName,
                              item |-> children[k]]],
                         "locale")
    IN  [k \in 1..Len(sorted) |-> sorted[k].item]

RECURSIVE sortElement(_)
\* sortElement(element): the attributes removed and set again in the order
\* of their names; without mixed content the child elements appended again
\* in the order of their tag names, which moves them behind the other
\* child nodes; then the same on every child element
sortElement(element) ==
    LET attrs == SortAttributes(element.attributes)
        children == SortChildren(SelectSeq(element.childNodes, IsElement))
        others == SelectSeq(element.childNodes, LAMBDA c : ~IsElement(c))
        moved == IF hasMixedContent(element) THEN element.childNodes
                 ELSE others \o children
    IN  [k |-> "element", tagName |-> element.tagName, attributes |-> attrs,
         childNodes |-> [i \in 1..Len(moved) |->
                            IF IsElement(moved[i]) THEN sortElement(moved[i])
                            ELSE moved[i]]]

\* sortElement(doc.documentElement)
SortDocument(doc) ==
    [ok |-> TRUE, declared |-> doc.declared,
     childNodes |-> [i \in 1..Len(doc.childNodes) |->
                        IF IsElement(doc.childNodes[i])
                        THEN sortElement(doc.childNodes[i])
                        ELSE doc.childNodes[i]]]

\* sortXML once the input is parsed: an error when it holds a parsererror,
\* the sorted document serialized and formatted otherwise
SortParsed(xml, doc, normalize) ==
    IF ~doc.ok THEN Thrown
    ELSE formatXML(WithDeclaration(xml, serializeToString(SortDocument(doc))),
                   normalize)

\* sortXML(xml, settings)
sortXML(xml, normalize) ==
    IF Trim(xml) = <<>> THEN Returned(<<>>)
    ELSE SortParsed(xml, parseFromString(xml), normalize)

---------------------------------------------------------------------------
(* formatText and sortText                                                 *)

\* formatText(text)
formatText(text) == Returned(text)

\* sortText(text)
sortText(text) ==
    IF Trim(text) = <<>> THEN Returned(<<>>)
    ELSE LET lines == SplitNL(text)
             sortedLines == SortBy([k \in 1..Len(lines) |->
                                       [key |-> lines[k], item |-> lines[k]]],
                                   "locale")
         IN  Returned(JoinNL([k \in 1..Len(sortedLines) |->
                                 sortedLines[k].item]))

RECURSIVE TextsOf(_, _)
\* the texts made of at most n of the given pieces
TextsOf(pieces, n) ==
    IF n = 0 THEN {<<>>}
    ELSE LET shorter == TextsOf(pieces, n - 1)
         IN  shorter \cup {p \o t : p \in pieces, t \in shorter}

---------------------------------------------------------------------------
(* The dispatch on the mode of a side, as handlePrettify, handleSort and   *)
(* executeDiff make it                                                     *)

FormatDoc(kind, text, normalize) ==
    IF kind = "json" THEN formatJSON(text)
    ELSE IF kind = "xml" THEN formatXML(text, normalize)
    ELSE formatText(text)

SortDoc(kind, text, normalize) ==
    IF kind = "json" THEN sortJSON(text)
    ELSE IF kind = "xml" THEN sortXML(text, normalize)
    ELSE sortText(text)

---------------------------------------------------------------------------
(* useUndo: the history of one side, past snapshots (oldest first), the    *)
(* present text and the undone texts (next to redo first)                  *)

\* useState of the hook
NewHistory(initialState) ==
    [past |-> <<>>, present |-> initialState, future |-> <<>>]

\* [...curr.past, curr.present] with the oldest entry shifted out when the
\* list is longer than maxHistory
PushPast(curr) ==
    IF Len(curr.past) + 1 > maxHistory
    THEN Tail(Append(curr.past, curr.present))
    ELSE Append(curr.past, curr.present)

set(curr, val) == [curr EXCEPT !.present = val]

saveSnapshot(curr) == [curr EXCEPT !.past = PushPast(curr)]

setWithHistory(curr, val) ==
    [past |-> PushPast(curr), present |-> val, future |-> <<>>]

undo(curr) ==
    IF Len(curr.past) = 0 THEN curr
    ELSE [past |-> SubSeq(curr.past, 1, Len(curr.past) - 1),
          present |-> curr.past[Len(curr.past)],
          future |-> <<curr.present>> \o curr.future]

redo(curr) ==
    IF Len(curr.future) = 0 THEN curr
    ELSE [past |-> Append(curr.past, curr.present),
          present |-> curr.future[1],
          future |-> Tail(curr.future)]

reset(state) == [past |-> <<>>, present |-> state, future |-> <<>>]

\* leftTimeoutRef.current and rightTimeoutRef.current before the first
\* setTimeout
NoTimer == [due |-> 0, pending |-> FALSE]

\* no typing yet, no time gone by
NoTyping ==
    /\ leftTypingRef = FALSE
    /\ leftTimeoutRef = NoTimer
    /\ rightTypingRef = FALSE
    /\ rightTimeoutRef = NoTimer
    /\ clock = 0
    /\ steps = 0

\* no validation effect has run
NoValidation ==
    /\ leftError = "null"
    /\ rightError = "null"
    /\ leftValidation = [t |-> NoTimer, pending |-> {}]
    /\ rightValidation = [t |-> NoTimer, pending |-> {}]

\* setLeftSchemaErrors([])
NoErrors == [valid |-> TRUE]

\* no validation against a schema was started
NoRun == [xml |-> <<>>, xsd |-> <<>>, lib |-> FALSE, active |-> FALSE]

\* no schema, and the schema validation effects have had nothing to do
NoSchema ==
    /\ xsdSchema = <<>>
    /\ useLibxml = FALSE
    /\ leftSchemaErrors = NoErrors
    /\ rightSchemaErrors = NoErrors
    /\ leftSchema = [run |-> NoRun, inflight |-> {}]
    /\ rightSchema = [run |-> NoRun, inflight |-> {}]

\* the EDIT view of a new application
NoView ==
    /\ viewState = "EDIT"
    /\ isProcessing = FALSE
    /\ diffMode = "lines"
    /\ diffTimers = <<>>

\* no effect has run
NoEffects ==
    /\ NoValidation
    /\ NoSchema
    /\ NoView

\* the two sides of a new application
NoSides ==
    /\ leftContent = NewHistory(<<>>)
    /\ rightContent = NewHistory(<<>>)
    /\ leftMode = "xml"
    /\ rightMode = "xml"
    /\ alerts = 0
    /\ side = "both"
    /\ NoTyping
    /\ NoEffects

\* no format or sort call is modelled
NoDocument ==
    /\ docKind = "text"
    /\ content = <<>>
    /\ twin = <<>>
    /\ normalizeWhitespace = FALSE
    /\ lastOp = "none"
    /\ result = Returned(<<>>)
    /\ twinResult = Returned(<<>>)
    /\ semanticDiff = FALSE

\* no computeDiff call is modelled
NoDiff ==
    /\ oldText = <<>>
    /\ newText = <<>>
    /\ options = [ignoreWhitespace |-> FALSE, ignoreBlankLines |-> FALSE,
                  ignoreComments |-> FALSE]
    /\ changes = <<>>
    /\ comparison = [leftLines |-> <<>>, rightLines |-> <<>>,
                     unifiedLines |-> <<>>, diffMode |-> "lines"]
    /\ pc = "input"

\* Format on a side: the formatter of the side's mode applied to its text
Format ==
    /\ lastOp = "none"
    /\ lastOp' = "format"
    /\ result' = FormatDoc(docKind, content, normalizeWhitespace)
    /\ twinResult' = FormatDoc(docKind, twin, normalizeWhitespace)
    /\ UNCHANGED <<docKind, content, twin, normalizeWhitespace, semanticDiff>>
    /\ UNCHANGED <<diffVars, appVars>>

\* Sort on a side: the sorter of the side's mode applied to its text
Sort ==
    /\ lastOp = "none"
    /\ lastOp' = "sort"
    /\ result' = SortDoc(docKind, content, normalizeWhitespace)
    /\ twinResult' = SortDoc(docKind, twin, normalizeWhitespace)
    /\ UNCHANGED <<docKind, content, twin, normalizeWhitespace, semanticDiff>>
    /\ UNCHANGED <<diffVars, appVars>>

NextDoc == Format \/ Sort

---------------------------------------------------------------------------
(* The JSON inputs: documents of                                           *)
(* up to MaxJsonNodes values written compactly or with white space, each   *)
(* with a twin that differs in the order of object keys, and free-form     *)
(* texts of up to MaxJsonPieces pieces, most of which do not parse         *)

JsonKeys == {<<"a">>, <<"b">>, <<"1", "0">>, <<"9">>}

JsonLeaf == [t |-> "num", v |-> <<"1">>]

\* the lists of n different keys
KeyLists(n) ==
    {ks \in [1..n -> JsonKeys] : \A i, j \in 1..n : i # j => ks[i] # ks[j]}

RECURSIVE JsonTrees(_)
RECURSIVE JsonForests(_)

\* the lists of documents that hold n values together
JsonForests(n) ==
    IF n = 0 THEN {<<>>}
    ELSE UNION {{<<t>> \o f : t \in JsonTrees(k), f \in JsonForests(n - k)} :
                   k \in 1..n}

\* the documents of exactly n values, objects without duplicate keys
JsonTrees(n) ==
    IF n = 1 THEN {JsonLeaf}
    ELSE {[t |-> "arr", items |-> f] : f \in JsonForests(n - 1)} \cup
         UNION {{[t |-> "obj",
                  props |-> [k \in 1..Len(f) |-> [key |-> ks[k], val |-> f[k]]]] :
                    ks \in KeyLists(Len(f))} : f \in JsonForests(n - 1)}

RECURSIVE RenderJson(_, _)
RECURSIVE RenderJsonList(_, _, _, _)

\* the members or elements from k on, separated by commas
RenderJsonList(v, list, k, spaced) ==
    LET pad == IF spaced THEN <<" ">> ELSE <<>>
        one == IF v.t = "obj"
               THEN <<Quote>> \o list[k].key \o <<Quote>> \o pad \o <<":">> \o
                    pad \o RenderJson(list[k].val, spaced)
               ELSE RenderJson(list[k], spaced)
    IN  one \o (IF k = Len(list) THEN <<>>
                ELSE pad \o <<",">> \o (IF spaced THEN <<NL>> ELSE <<>>) \o
                     RenderJsonList(v, list, k + 1, spaced))

\* a document as JSON text, compact or with white space around every token
RenderJson(v, spaced) ==
    LET pad == IF spaced THEN <<" ">> ELSE <<>>
    IN  IF v.t = "num" THEN v.v
        ELSE IF v.t = "arr"
        THEN <<"[">> \o pad \o
             (IF v.items = <<>> THEN <<>>
              ELSE RenderJsonList(v, v.items, 1, spaced) \o pad) \o <<"]">>
        ELSE <<"{">> \o pad \o
             (IF v.props = <<>> THEN <<>>
              ELSE RenderJsonList(v, v.props, 1, spaced) \o pad) \o <<"}">>

Perms(n) == {f \in [1..n -> 1..n] : \A i, j \in 1..n : i # j => f[i] # f[j]}

RECURSIVE Reorderings(_)
\* the documents that differ from v only in the order of object keys
Reorderings(v) ==
    IF v.t = "arr"
    THEN {[t |-> "arr", items |-> f] :
             f \in {g \in [1..Len(v.items) ->
                             UNION {Reorderings(v.items[k]) : k \in 1..Len(v.items)}] :
                       \A k \in 1..Len(v.items) : g[k] \in Reorderings(v.items[k])}}
    ELSE IF v.t = "obj"
    THEN {[t |-> "obj",
           props |-> [k \in 1..Len(v.props) |->
                         [key |-> v.props[f[k]].key, val |-> g[f[k]]]]] :
             f \in Perms(Len(v.props)),
             g \in {h \in [1..Len(v.props) ->
                             UNION {Reorderings(v.props[k].val) : k \in 1..Len(v.props)}] :
                       \A k \in 1..Len(v.props) : h[k] \in Reorderings(v.props[k].val)}}
    ELSE {v}

JsonPieces ==
    {<<"{">>, <<"}">>, <<"[">>, <<"]">>, <<Quote, "a", Quote>>, <<":">>,
     <<"1">>, <<",">>, <<" ">>}

\* a JSON text on one side and its twin on the other
JsonInputs ==
    /\ docKind = "json"
    /\ normalizeWhitespace = FALSE
    /\ \/ \E n \in 1..MaxJsonNodes : \E v \in JsonTrees(n) :
          \E w \in Reorderings(v) : \E spaced \in BOOLEAN :
             /\ content = RenderJson(v, spaced)
             /\ twin = RenderJson(w, ~spaced)
       \/ /\ content \in TextsOf(JsonPieces, MaxJsonPieces)
          /\ twin = content

\* nothing formatted or sorted yet
NothingDone ==
    /\ lastOp = "none"
    /\ result = Returned(<<>>)
    /\ twinResult = Returned(<<>>)

InitJson ==
    /\ NoDiff
    /\ NothingDone
    /\ NoSides
    /\ semanticDiff = FALSE
    /\ JsonInputs

---------------------------------------------------------------------------
(* The plain text inputs                                                   *)

TextPieces == {<<"a">>, <<"b">>, <<"B">>, <<" ">>, <<NL>>}

\* a plain text on both sides
TextInputs ==
    /\ docKind = "text"
    /\ normalizeWhitespace = FALSE
    /\ content \in TextsOf(TextPieces, MaxTextPieces)
    /\ twin = content

InitText ==
    /\ NoDiff
    /\ NothingDone
    /\ NoSides
    /\ semanticDiff = FALSE
    /\ TextInputs

---------------------------------------------------------------------------
(* The XML inputs: documents of up to MaxXmlNodes nodes (elements,         *)
(* attributes, text, comments, CDATA sections, the declaration), documents *)
(* of up to MaxPlainNodes nodes without attributes, and free-form texts of *)
(* up to MaxXmlPieces pieces, most of which do not parse; each document    *)
(* with a twin that differs in the order of attributes and of sibling      *)
(* elements                                                                *)

\* names in both cases: "B" comes before "a" by code unit, "a" before "B"
\* by localeCompare
XmlNames == {<<"a">>, <<"B">>}

\* attribute values as written: plain, a line feed reference, an entity
XmlAttrValues ==
    {<<"1">>, <<"&", "#", "1", "0", ";">>, <<"&", "l", "t", ";">>}

XmlAttr(name, value) == <<" ">> \o name \o <<"=", Quote>> \o value \o <<Quote>>

\* the ways to write k attributes of different names
XmlAttrTexts(k) ==
    IF k = 0 THEN {<<>>}
    ELSE IF k = 1 THEN {XmlAttr(n, v) : n \in XmlNames, v \in XmlAttrValues}
    ELSE UNION {{XmlAttr(n1, v1) \o XmlAttr(n2, v2) :
                    n2 \in XmlNames \ {n1},
                    v1 \in XmlAttrValues, v2 \in XmlAttrValues} :
                   n1 \in XmlNames}

\* text, a comment and a CDATA section as written
XmlLeaves ==
    {<<"x">>, <<" ">>, <<" ", "x", " ", " ", "y", " ">>,
     <<"&", "l", "t", ";", Quote>>,
     CommentOpen \o <<"c">> \o CommentClose,
     CDataOpen \o <<"x">> \o CDataClose}

Min(a, b) == IF a <= b THEN a ELSE b

RECURSIVE XmlElements(_)
RECURSIVE XmlContents(_)

\* the elements of exactly n nodes as written
XmlElements(n) ==
    UNION {UNION {{<<"<">> \o name \o attrs \o
                   (IF body = <<>> THEN <<"/", ">">>
                    ELSE <<">">> \o body \o <<"<", "/">> \o name \o <<">">>) :
                      name \in XmlNames, attrs \in XmlAttrTexts(k)} :
                    body \in XmlContents(n - 1 - k)} :
              k \in 0..Min(2, n - 1)}

\* the contents of exactly n nodes as written
XmlContents(n) ==
    IF n = 0 THEN {<<>>}
    ELSE UNION {{first \o rest :
                    first \in (IF k = 1 THEN XmlLeaves ELSE {}) \cup XmlElements(k),
                    rest \in XmlContents(n - k)} : k \in 1..n}

\* text as written in the documents without attributes
XmlPlainLeaves == {<<"x">>, <<" ">>}

RECURSIVE XmlPlainElements(_)
RECURSIVE XmlPlainContents(_)

\* the elements of exactly n nodes as written, none with an attribute
XmlPlainElements(n) ==
    UNION {{<<"<">> \o name \o
            (IF body = <<>> THEN <<"/", ">">>
             ELSE <<">">> \o body \o <<"<", "/">> \o name \o <<">">>) :
               name \in XmlNames} :
             body \in XmlPlainContents(n - 1)}

\* the contents of exactly n nodes as written, no element with an attribute
XmlPlainContents(n) ==
    IF n = 0 THEN {<<>>}
    ELSE UNION {{first \o rest :
                    first \in (IF k = 1 THEN XmlPlainLeaves ELSE {}) \cup
                              XmlPlainElements(k),
                    rest \in XmlPlainContents(n - k)} : k \in 1..n}

\* the permutations of the child nodes that move elements only
ElementPerms(kids) ==
    {p \in Perms(Len(kids)) :
        \A k \in 1..Len(kids) : ~IsElement(kids[k]) => p[k] = k}

RECURSIVE XmlReorderings(_)
RECURSIVE ChildReorderings(_)

\* one reordering for each of the nodes of a list
ChildReorderings(kids) ==
    {g \in [1..Len(kids) ->
               UNION {XmlReorderings(kids[k]) : k \in 1..Len(kids)}] :
        \A k \in 1..Len(kids) : g[k] \in XmlReorderings(kids[k])}

\* the nodes that differ from node only in the order of attributes and in
\* the order of the child elements of elements without mixed content
XmlReorderings(node) ==
    IF ~IsElement(node) THEN {node}
    ELSE {[k |-> "element", tagName |-> node.tagName,
           attributes |-> [i \in 1..Len(node.attributes) |->
                              node.attributes[q[i]]],
           childNodes |-> [i \in 1..Len(node.childNodes) |-> g[p[i]]]] :
            q \in Perms(Len(node.attributes)),
            p \in IF hasMixedContent(node)
                  THEN {[i \in 1..Len(node.childNodes) |-> i]}
                  ELSE ElementPerms(node.childNodes),
            g \in ChildReorderings(node.childNodes)}

\* the reordered documents of a document, as written; the text itself
\* when it does not parse
XmlTwins(xml, doc) ==
    IF ~doc.ok THEN {xml}
    ELSE {serializeToString([ok |-> TRUE, declared |-> doc.declared,
                             childNodes |-> top]) :
             top \in ChildReorderings(doc.childNodes)}

XmlPieces ==
    {<<"<", "a", ">">>, <<"<", "/", "a", ">">>, <<"<", "b", "/", ">">>,
     <<"x">>, <<" ">>, <<"<">>, <<"&">>, CommentOpen \o <<"c">> \o CommentClose}

\* an XML text on one side and its twin on the other
XmlDocuments ==
    \/ \E n \in 1..MaxXmlNodes : content \in XmlElements(n)
    \/ \E n \in 1..(MaxXmlNodes - 1) : \E el \in XmlElements(n) :
          content = XmlDecl \o el
    \/ \E n \in 1..MaxPlainNodes : content \in XmlPlainElements(n)

XmlInputs ==
    /\ docKind = "xml"
    /\ normalizeWhitespace \in BOOLEAN
    /\ \/ XmlDocuments
       \/ content \in TextsOf(XmlPieces, MaxXmlPieces)
    /\ twin \in XmlTwins(content, parseFromString(content))

InitXml ==
    /\ NoDiff
    /\ NothingDone
    /\ NoSides
    /\ semanticDiff = FALSE
    /\ XmlInputs

---------------------------------------------------------------------------
(* The specification of the formatters and sorters: one Format or one      *)
(* Sort on a text of any of the three document kinds                       *)

InitDoc == InitJson \/ InitText \/ InitXml

SpecDoc == InitDoc /\ [][NextDoc]_vars

---------------------------------------------------------------------------
(* The specification of computeDiff: any two texts, any options            *)

\* what the input texts of computeDiff are made of
DiffPieces == {<<"a">>, <<" ">>, <<NL>>, CommentOpen, CommentClose}

DiffModes == {"lines", "words", "chars"}

DiffOptions ==
    [ignoreWhitespace : BOOLEAN, ignoreBlankLines : BOOLEAN,
     ignoreComments : BOOLEAN]

NoComparison ==
    [leftLines |-> <<>>, rightLines |-> <<>>, unifiedLines |-> <<>>,
     diffMode |-> "lines"]

\* the lines of the texts given line by line: a line of text, an empty
\* line, a line that holds a comment and nothing else
DiffLineTexts == {<<"a">>, <<>>, CommentOpen \o <<"a">> \o CommentClose}

\* the lists of 1 to n lines
LineLists(n) == UNION {[1..k -> DiffLineTexts] : k \in 1..n}

\* a list without its element k
RemoveAt(list, k) == SubSeq(list, 1, k - 1) \o SubSeq(list, k + 1, Len(list))

\* a text of up to MaxLines lines and the text that an edit leaves of it
\* when it takes one line out, in either role
EditedPairs ==
    UNION {UNION {{<<JoinNL(ls), JoinNL(RemoveAt(ls, k))>>,
                   <<JoinNL(RemoveAt(ls, k)), JoinNL(ls)>>} :
                     k \in 1..Len(ls)} : ls \in LineLists(MaxLines)}

\* the texts compared: any two texts of up to MaxPieces pieces, or a text
\* and an edit of it
InitDiff ==
    /\ \/ /\ oldText \in TextsOf(DiffPieces, MaxPieces)
          /\ newText \in TextsOf(DiffPieces, MaxPieces)
       \/ \E pair \in EditedPairs :
             oldText = pair[1] /\ newText = pair[2]
    /\ options \in DiffOptions
    /\ changes = <<>>
    /\ comparison = NoComparison
    /\ pc = "input"
    /\ NoDocument
    /\ NoSides

\* finalOld and finalNew of computeDiff
finalOld == Preprocess(oldText, options.ignoreBlankLines, options.ignoreComments)

finalNew == Preprocess(newText, options.ignoreBlankLines, options.ignoreComments)

\* one call computeDiff(oldText, newText, mode, ignoreWhitespace,
\* ignoreBlankLines, ignoreComments)
ComputeDiff ==
    /\ pc = "input"
    /\ \E chs \in diffLines(finalOld, finalNew, options.ignoreWhitespace) :
       \E mode \in DiffModes :
          /\ changes' = chs
          /\ comparison' = computeDiff(chs, mode)
    /\ pc' = "done"
    /\ UNCHANGED <<oldText, newText, options>>
    /\ UNCHANGED <<docVars, appVars>>

NextDiff == ComputeDiff

SpecDiff == InitDiff /\ [][NextDiff]_vars

---------------------------------------------------------------------------
(* The specification of executeDiff: the texts of the two sides compared   *)
(* as they are or, with semantic diff on, after the sorter of the side's   *)
(* mode went over each.  The two sides hold XML, content and twin, the     *)
(* right one a reordering of the left one; the three flags of computeDiff, *)
(* which SpecDiff covers, and the white space setting of the formatter,    *)
(* which SpecDoc covers, are as the application starts them                *)

\* a sort that leaves nothing in the variable when it throws
SortedOrKept_Lost(sorted, text) == sorted.text

\* what a try block around a sort leaves in the variable: the sorted text,
\* or the text as it was when the sort threw
SortedOrKept(sorted, text) == IF sorted.threw THEN text ELSE sorted.text

\* the text of a side compared as it is
TextToCompare_Unsorted(mode, text) == text

\* oldText or newText of executeDiff as computeDiff gets it
TextToCompare(mode, text) ==
    IF semanticDiff
    THEN SortedOrKept(SortDoc(mode, text, normalizeWhitespace), text)
    ELSE text

InitSemantic ==
    /\ oldText = <<>>
    /\ newText = <<>>
    /\ options = [ignoreWhitespace |-> FALSE, ignoreBlankLines |-> FALSE,
                  ignoreComments |-> FALSE]
    /\ changes = <<>>
    /\ comparison = NoComparison
    /\ pc = "input"
    /\ NothingDone
    /\ docKind = "xml"
    /\ XmlDocuments \/ content \in XmlPieces
    /\ twin \in XmlTwins(content, parseFromString(content))
    /\ normalizeWhitespace = FALSE
    /\ semanticDiff \in BOOLEAN
    /\ leftContent = NewHistory(content)
    /\ rightContent = NewHistory(twin)
    /\ leftMode = docKind
    /\ rightMode = docKind
    /\ alerts = 0
    /\ side = "both"
    /\ NoTyping
    /\ NoEffects

\* executeDiff: the callback of the timer
executeDiff ==
    /\ pc = "input"
    /\ oldText' = TextToCompare(leftMode, leftContent.present)
    /\ newText' = TextToCompare(rightMode, rightContent.present)
    /\ \E chs \in diffLines(Preprocess(oldText', options.ignoreBlankLines,
                                       options.ignoreComments),
                            Preprocess(newText', options.ignoreBlankLines,
                                       options.ignoreComments),
                            options.ignoreWhitespace) :
       \E mode \in DiffModes :
          /\ changes' = chs
          /\ comparison' = computeDiff(chs, mode)
    /\ pc' = "done"
    /\ UNCHANGED <<options, docVars, appVars>>

NextSemantic == executeDiff

SpecSemantic == InitSemantic /\ [][NextSemantic]_vars

---------------------------------------------------------------------------
(* The specification of the two sides: each side holds a text of its own   *)
(* in a mode of its own; one Sort or one Prettify on the left side, the    *)
(* right side or both, and the comparison of the two sides.  content and   *)
(* twin keep the texts the left and the right side start with              *)

\* the texts of a side: nothing, white space, an XML document that the
\* sorter reorders, a JSON document that the sorter reorders, two lines
\* that the line sorter swaps; each but the first parses in one mode only
SideTexts ==
    {<<>>, <<" ">>,
     <<"<", "a", ">", "<", "B", "/", ">", "<", "a", "/", ">",
       "<", "/", "a", ">">>,
     <<"{", Quote, "b", Quote, ":", "1", ",", Quote, "a", Quote, ":", "1",
       "}">>,
     <<"b", NL, "a">>}

Modes == {"xml", "json", "text"}

Sides == {"left", "right", "both"}

InitSides ==
    /\ NoDiff
    /\ NothingDone
    /\ content \in SideTexts
    /\ twin \in SideTexts
    /\ leftMode \in Modes
    /\ rightMode \in Modes
    /\ docKind = leftMode
    /\ normalizeWhitespace = FALSE
    /\ semanticDiff \in BOOLEAN
    /\ leftContent = NewHistory(content)
    /\ rightContent = NewHistory(twin)
    /\ alerts = 0
    /\ side = "both"
    /\ NoTyping
    /\ NoEffects

\* one side of handleSort or handlePrettify: skipped when the side is not
\* asked for, when its text is empty or when a statement before it threw;
\* otherwise setWithHistory of what the sorter or formatter returned, unless
\* that one threw
SideDone(curr, wanted, thrown, done) ==
    IF ~wanted \/ curr.present = <<>> \/ thrown \/ done.threw THEN curr
    ELSE setWithHistory(curr, done.text)

\* the side's sorter or formatter was called and threw
SideThrew(curr, wanted, thrown, done) ==
    wanted /\ curr.present # <<>> /\ ~thrown /\ done.threw

\* handleSort(side): the left side, then the right side, inside one try
\* block whose catch shows the alert
handleSort(s) ==
    /\ pc = "input"
    /\ lastOp = "none"
    /\ lastOp' = "sort"
    /\ side' = s
    /\ leftContent' =
          SideDone(leftContent, s \in {"left", "both"}, FALSE,
                   SortDoc(leftMode, leftContent.present, normalizeWhitespace))
    /\ rightContent' =
          SideDone(rightContent, s \in {"right", "both"},
                   SideThrew(leftContent, s \in {"left", "both"}, FALSE,
                             SortDoc(leftMode, leftContent.present,
                                     normalizeWhitespace)),
                   SortDoc(rightMode, rightContent.present,
                           normalizeWhitespace))
    /\ alerts' =
          IF \/ SideThrew(leftContent, s \in {"left", "both"}, FALSE,
                          SortDoc(leftMode, leftContent.present,
                                  normalizeWhitespace))
             \/ SideThrew(rightContent, s \in {"right", "both"},
                          SideThrew(leftContent, s \in {"left", "both"},
                                    FALSE,
                                    SortDoc(leftMode, leftContent.present,
                                            normalizeWhitespace)),
                          SortDoc(rightMode, rightContent.present,
                                  normalizeWhitespace))
          THEN alerts + 1 ELSE alerts
    /\ UNCHANGED <<leftMode, rightMode, typingVars, timeVars>>
    /\ UNCHANGED <<docKind, content, twin, normalizeWhitespace, result,
                   twinResult, semanticDiff>>
    /\ UNCHANGED <<diffVars, effectVars>>

\* handlePrettify(side): the left side, then the right side, with no try
\* block: a formatter that throws ends the handler
handlePrettify(s) ==
    /\ pc = "input"
    /\ lastOp = "none"
    /\ lastOp' = "format"
    /\ side' = s
    /\ leftContent' =
          SideDone(leftContent, s \in {"left", "both"}, FALSE,
                   FormatDoc(leftMode, leftContent.present,
                             normalizeWhitespace))
    /\ rightContent' =
          SideDone(rightContent, s \in {"right", "both"},
                   SideThrew(leftContent, s \in {"left", "both"}, FALSE,
                             FormatDoc(leftMode, leftContent.present,
                                       normalizeWhitespace)),
                   FormatDoc(rightMode, rightContent.present,
                             normalizeWhitespace))
    /\ UNCHANGED <<leftMode, rightMode, alerts, typingVars, timeVars>>
    /\ UNCHANGED <<docKind, content, twin, normalizeWhitespace, result,
                   twinResult, semanticDiff>>
    /\ UNCHANGED <<diffVars, effectVars>>

NextSides ==
    \/ \E s \in Sides : handleSort(s)
    \/ \E s \in Sides : handlePrettify(s)
    \/ executeDiff

SpecSides == InitSides /\ [][NextSides]_vars

---------------------------------------------------------------------------
(* SpecUndo: the calls of one useUndo hook, the left content of a new     *)
(* application                                                             *)

\* the values the callers pass to setState, setWithHistory and reset
UndoValues == {<<"x">>, <<"y">>}

InitUndo ==
    /\ NoDiff
    /\ NoDocument
    /\ NoSides

\* setState(val)
SetState(val) ==
    /\ leftContent' = set(leftContent, val)
    /\ UNCHANGED <<rightContent, leftMode, rightMode, alerts, side>>
    /\ UNCHANGED <<typingVars, timeVars, diffVars, docVars, effectVars>>

\* saveSnapshot()
SaveSnapshot ==
    /\ leftContent' = saveSnapshot(leftContent)
    /\ UNCHANGED <<rightContent, leftMode, rightMode, alerts, side>>
    /\ UNCHANGED <<typingVars, timeVars, diffVars, docVars, effectVars>>

\* setWithHistory(val)
SetWithHistory(val) ==
    /\ leftContent' = setWithHistory(leftContent, val)
    /\ UNCHANGED <<rightContent, leftMode, rightMode, alerts, side>>
    /\ UNCHANGED <<typingVars, timeVars, diffVars, docVars, effectVars>>

\* undo(); the model stops undoing at MaxFuture undone states
Undo ==
    /\ Len(leftContent.future) < MaxFuture
    /\ leftContent' = undo(leftContent)
    /\ UNCHANGED <<rightContent, leftMode, rightMode, alerts, side>>
    /\ UNCHANGED <<typingVars, timeVars, diffVars, docVars, effectVars>>

\* redo()
Redo ==
    /\ leftContent' = redo(leftContent)
    /\ UNCHANGED <<rightContent, leftMode, rightMode, alerts, side>>
    /\ UNCHANGED <<typingVars, timeVars, diffVars, docVars, effectVars>>

\* reset(state)
Reset(state) ==
    /\ leftContent' = reset(state)
    /\ UNCHANGED <<rightContent, leftMode, rightMode, alerts, side>>
    /\ UNCHANGED <<typingVars, timeVars, diffVars, docVars, effectVars>>

NextUndo ==
    \/ \E val \in UndoValues : SetState(val)
    \/ SaveSnapshot
    \/ \E val \in UndoValues : SetWithHistory(val)
    \/ Undo
    \/ Redo
    \/ \E state \in UndoValues : Reset(state)

SpecUndo == InitUndo /\ [][NextUndo]_vars

---------------------------------------------------------------------------
(* SpecTyping: typing, undo, redo and clear in the two XmlEditor panes,    *)
(* with the timers of the typing pause                                     *)

\* the characters the user types
TypedChars == {"x", "y"}

InitTyping ==
    /\ NoDiff
    /\ NoDocument
    /\ NoSides

\* setTimeout(callback, delay) at the present time
SetTimeout(delay) == [due |-> clock + delay, pending |-> TRUE]

\* the onChange of an XmlEditor detects the mode when the pane was empty
DetectMode(curr, val, mode) ==
    IF curr.present # <<>> \/ Trim(val) = <<>> THEN mode
    ELSE IF Trim(val)[1] \in {"{", "["} THEN "json"
    ELSE IF Trim(val)[1] = "<" THEN "xml"
    ELSE "text"

\* a change handler that saves a snapshot at every edit
Typed_EveryEdit(curr, typing, val) == set(saveSnapshot(curr), val)

\* handleLeftChange / handleRightChange on the history of the side: a
\* snapshot unless typing is under way, then setState(val)
Typed(curr, typing, val) ==
    set(IF ~typing THEN saveSnapshot(curr) ELSE curr, val)

\* one more event handled
Event(op, s) ==
    /\ steps < MaxSteps
    /\ steps' = steps + 1
    /\ lastOp' = op
    /\ side' = s

\* handleLeftChange(val), called by the onChange of the left XmlEditor
handleLeftChange(val) ==
    /\ Event("handleLeftChange", "left")
    /\ leftMode' = DetectMode(leftContent, val, leftMode)
    /\ leftContent' = Typed(leftContent, leftTypingRef, val)
    /\ leftTypingRef' = TRUE
    /\ leftTimeoutRef' = SetTimeout(TypingPause)
    /\ UNCHANGED <<rightContent, rightMode, rightTypingRef, rightTimeoutRef>>
    /\ UNCHANGED <<alerts, clock, diffVars, effectVars>>
    /\ UNCHANGED <<docKind, content, twin, normalizeWhitespace, result,
                   twinResult, semanticDiff>>

\* handleRightChange(val), called by the onChange of the right XmlEditor
handleRightChange(val) ==
    /\ Event("handleRightChange", "right")
    /\ rightMode' = DetectMode(rightContent, val, rightMode)
    /\ rightContent' = Typed(rightContent, rightTypingRef, val)
    /\ rightTypingRef' = TRUE
    /\ rightTimeoutRef' = SetTimeout(TypingPause)
    /\ UNCHANGED <<leftContent, leftMode, leftTypingRef, leftTimeoutRef>>
    /\ UNCHANGED <<alerts, clock, diffVars, effectVars>>
    /\ UNCHANGED <<docKind, content, twin, normalizeWhitespace, result,
                   twinResult, semanticDiff>>

\* the callback of the left timer: it runs when the timer is due or later,
\* unless the timer was cleared
LeftTypingTimeout ==
    /\ leftTimeoutRef.pending
    /\ clock >= leftTimeoutRef.due
    /\ Event("timeout", "left")
    /\ leftTypingRef' = FALSE
    /\ leftTimeoutRef' = [leftTimeoutRef EXCEPT !.pending = FALSE]
    /\ UNCHANGED <<leftContent, rightContent, leftMode, rightMode, alerts>>
    /\ UNCHANGED <<rightTypingRef, rightTimeoutRef>>
    /\ UNCHANGED <<clock, diffVars, effectVars>>
    /\ UNCHANGED <<docKind, content, twin, normalizeWhitespace, result,
                   twinResult, semanticDiff>>

\* the callback of the right timer
RightTypingTimeout ==
    /\ rightTimeoutRef.pending
    /\ clock >= rightTimeoutRef.due
    /\ Event("timeout", "right")
    /\ rightTypingRef' = FALSE
    /\ rightTimeoutRef' = [rightTimeoutRef EXCEPT !.pending = FALSE]
    /\ UNCHANGED <<leftContent, rightContent, leftMode, rightMode, alerts>>
    /\ UNCHANGED <<leftTypingRef, leftTimeoutRef>>
    /\ UNCHANGED <<clock, diffVars, effectVars>>
    /\ UNCHANGED <<docKind, content, twin, normalizeWhitespace, result,
                   twinResult, semanticDiff>>

\* onUndo of a pane: undo() of its content
onUndo(s) ==
    /\ Event("undo", s)
    /\ leftContent' = IF s = "left" THEN undo(leftContent) ELSE leftContent
    /\ rightContent' =
          IF s = "right" THEN undo(rightContent) ELSE rightContent
    /\ UNCHANGED <<leftMode, rightMode, alerts, typingVars, clock, diffVars, effectVars>>
    /\ UNCHANGED <<docKind, content, twin, normalizeWhitespace, result,
                   twinResult, semanticDiff>>

\* onRedo of a pane: redo() of its content
onRedo(s) ==
    /\ Event("redo", s)
    /\ leftContent' = IF s = "left" THEN redo(leftContent) ELSE leftContent
    /\ rightContent' =
          IF s = "right" THEN redo(rightContent) ELSE rightContent
    /\ UNCHANGED <<leftMode, rightMode, alerts, typingVars, clock, diffVars, effectVars>>
    /\ UNCHANGED <<docKind, content, twin, normalizeWhitespace, result,
                   twinResult, semanticDiff>>

\* onClear of a pane: setWithHistory('') of its content
onClear(s) ==
    /\ Event("clear", s)
    /\ leftContent' =
          IF s = "left" THEN setWithHistory(leftContent, <<>>)
          ELSE leftContent
    /\ rightContent' =
          IF s = "right" THEN setWithHistory(rightContent, <<>>)
          ELSE rightContent
    /\ UNCHANGED <<leftMode, rightMode, alerts, typingVars, clock, diffVars, effectVars>>
    /\ UNCHANGED <<docKind, content, twin, normalizeWhitespace, result,
                   twinResult, semanticDiff>>

\* half a typing pause goes by
Tick ==
    /\ Event("tick", side)
    /\ clock' = clock + TypingPause \div 2
    /\ UNCHANGED <<leftContent, rightContent, leftMode, rightMode, alerts>>
    /\ UNCHANGED <<typingVars, diffVars, effectVars>>
    /\ UNCHANGED <<docKind, content, twin, normalizeWhitespace, result,
                   twinResult, semanticDiff>>

NextTyping ==
    \/ \E ch \in TypedChars :
          handleLeftChange(Append(leftContent.present, ch))
    \/ \E ch \in TypedChars :
          handleRightChange(Append(rightContent.present, ch))
    \/ LeftTypingTimeout
    \/ RightTypingTimeout
    \/ \E s \in {"left", "right"} : onUndo(s)
    \/ \E s \in {"left", "right"} : onRedo(s)
    \/ \E s \in {"left", "right"} : onClear(s)
    \/ Tick

SpecTyping == InitTyping /\ [][NextTyping]_vars

---------------------------------------------------------------------------
(* SpecValidation: the two validation effects, which recompute the parse   *)
(* error of a side after every change of its content or mode.  The effect  *)
(* of a render runs with the change that caused the render; the error is   *)
(* the validator's result, null or an error with the parser's message      *)

\* validateXML(xml)
validateXML(xml) ==
    IF Trim(xml) = <<>> THEN "null"
    ELSE IF parseFromString(xml).ok THEN "null" ELSE "error"

\* validateJSON(json)
validateJSON(json) ==
    IF Trim(json) = <<>> THEN "null"
    ELSE IF JsonParse(json).ok THEN "null" ELSE "error"

\* validateText(text)
validateText(text) == "null"

\* the callback of the validation timer, on the content and the mode of the
\* render that set it
Validated(mode, text) ==
    IF mode = "xml" THEN validateXML(text)
    ELSE IF mode = "json" THEN validateJSON(text)
    ELSE validateText(text)

\* the texts typed, pasted or uploaded: nothing, an XML document, and a
\* text that is neither XML nor JSON and is taken for JSON by its start
EditedTexts ==
    {<<>>, <<"<", "a", "/", ">">>, <<"{">>}

\* one more change of the contents
Change(op, s) ==
    /\ steps < MaxChanges
    /\ steps' = steps + 1
    /\ lastOp' = op
    /\ side' = s

\* the timer a validation effect sets for the content and mode of its render
ValidationTimer(text, mode) ==
    [due |-> clock + ValidationDelay, content |-> text, mode |-> mode]

\* clearTimeout(t) leaving the timer pending
ClearTimeout_Kept(pending, t) == pending

\* clearTimeout(t)
ClearTimeout(pending, t) == pending \ {t}

\* a validation effect after a render: when the content or the mode differs
\* from the last render's, the cleanup of the last run clears its timer and
\* the effect sets a new one
Revalidated(v, text, mode, nextText, nextMode) ==
    IF nextText = text /\ nextMode = mode THEN v
    ELSE [t |-> ValidationTimer(nextText, nextMode),
          pending |-> ClearTimeout(v.pending, v.t)
                         \cup {ValidationTimer(nextText, nextMode)}]

\* the first render: both effects set their timers
InitValidation ==
    /\ NoDiff
    /\ NoDocument
    /\ leftContent = NewHistory(<<>>)
    /\ rightContent = NewHistory(<<>>)
    /\ leftMode = "xml"
    /\ rightMode = "xml"
    /\ alerts = 0
    /\ side = "both"
    /\ NoTyping
    /\ leftError = "null"
    /\ rightError = "null"
    /\ leftValidation = [t |-> ValidationTimer(<<>>, "xml"),
                         pending |-> {ValidationTimer(<<>>, "xml")}]
    /\ rightValidation = [t |-> ValidationTimer(<<>>, "xml"),
                          pending |-> {ValidationTimer(<<>>, "xml")}]
    /\ NoSchema
    /\ NoView

\* the dependencies of the schema validation effect of a side
SchemaDeps(text, xsd, mode, lib) ==
    [xml |-> text, xsd |-> xsd, mode |-> mode, lib |-> lib]

\* the effect validates: if (xsdSchema && content && mode === 'xml')
HasSchemaToCheck(deps) ==
    deps.xsd # <<>> /\ deps.xml # <<>> /\ deps.mode = "xml"

\* the call validateAgainstSchema(content, xsdSchema, useLibxml) of a run
\* of the effect, with the run's flag
SchemaRun(deps) ==
    [xml |-> deps.xml, xsd |-> deps.xsd, lib |-> deps.lib, active |-> TRUE]

\* result.errors of the call of a run: the errors the validator finds in
\* this content under this schema
SchemaErrorsOf(run) ==
    [valid |-> FALSE, xml |-> run.xml, xsd |-> run.xsd, lib |-> run.lib]

\* a cleanup that leaves the flag of its run set
Cleanup_StillActive(inflight, run) == inflight

\* the cleanup of a run of the effect: active = false
Cleanup(inflight, run) ==
    {IF r = run THEN [r EXCEPT !.active = FALSE] ELSE r : r \in inflight}

\* the runs of a schema validation effect after a render: when a dependency
\* differs from the last render's, the cleanup of the last run, then a new
\* run, whose call is in flight when there is a schema to check
SchemaChecked(v, deps, nextDeps) ==
    IF nextDeps = deps THEN v
    ELSE IF HasSchemaToCheck(nextDeps)
    THEN [run |-> SchemaRun(nextDeps),
          inflight |-> Cleanup(v.inflight, v.run) \cup {SchemaRun(nextDeps)}]
    ELSE [run |-> NoRun, inflight |-> Cleanup(v.inflight, v.run)]

\* the schema errors after the render: a run with no schema to check sets
\* them to none at once
SchemaErrorsChecked(errors, deps, nextDeps) ==
    IF nextDeps = deps \/ HasSchemaToCheck(nextDeps) THEN errors
    ELSE NoErrors

\* a handler changed the state: the render, and the validation effects and
\* the schema validation effects that follow it
Rendered ==
    /\ leftValidation' =
          Revalidated(leftValidation, leftContent.present, leftMode,
                      leftContent'.present, leftMode')
    /\ rightValidation' =
          Revalidated(rightValidation, rightContent.present, rightMode,
                      rightContent'.present, rightMode')
    /\ leftSchema' =
          SchemaChecked(leftSchema,
                        SchemaDeps(leftContent.present, xsdSchema, leftMode,
                                   useLibxml),
                        SchemaDeps(leftContent'.present, xsdSchema',
                                   leftMode', useLibxml'))
    /\ leftSchemaErrors' =
          SchemaErrorsChecked(leftSchemaErrors,
                              SchemaDeps(leftContent.present, xsdSchema,
                                         leftMode, useLibxml),
                              SchemaDeps(leftContent'.present, xsdSchema',
                                         leftMode', useLibxml'))
    /\ rightSchema' =
          SchemaChecked(rightSchema,
                        SchemaDeps(rightContent.present, xsdSchema,
                                   rightMode, useLibxml),
                        SchemaDeps(rightContent'.present, xsdSchema',
                                   rightMode', useLibxml'))
    /\ rightSchemaErrors' =
          SchemaErrorsChecked(rightSchemaErrors,
                              SchemaDeps(rightContent.present, xsdSchema,
                                         rightMode, useLibxml),
                              SchemaDeps(rightContent'.present, xsdSchema',
                                         rightMode', useLibxml'))
    /\ UNCHANGED <<leftError, rightError, alerts, typingVars, clock>>
    /\ UNCHANGED <<docKind, content, twin, normalizeWhitespace, result,
                   twinResult, semanticDiff>>
    /\ UNCHANGED <<diffVars, viewVars>>

\* the onChange of a MonacoEditorWrapper: mode detection, then setState(val)
onEditorChange(s, val) ==
    /\ UNCHANGED <<xsdSchema, useLibxml>>
    /\ leftMode' =
          IF s = "left" THEN DetectMode(leftContent, val, leftMode)
          ELSE leftMode
    /\ leftContent' = IF s = "left" THEN set(leftContent, val) ELSE leftContent
    /\ rightMode' =
          IF s = "right" THEN DetectMode(rightContent, val, rightMode)
          ELSE rightMode
    /\ rightContent' =
          IF s = "right" THEN set(rightContent, val) ELSE rightContent
    /\ Rendered

\* handleUpload: the mode of the text read
UploadMode(text) ==
    IF Trim(text) # <<>> /\ Trim(text)[1] \in {"{", "["} THEN "json"
    ELSE IF Trim(text) # <<>> /\ Trim(text)[1] = "<" THEN "xml"
    ELSE "text"

\* handleUpload(side, file) with the text read from the file, autoFormat
\* being 'paste' as in the default settings
handleUpload(s, text) ==
    /\ UNCHANGED <<xsdSchema, useLibxml>>
    /\ leftMode' = IF s = "left" THEN UploadMode(text) ELSE leftMode
    /\ leftContent' =
          IF s = "left" THEN setWithHistory(leftContent, text)
          ELSE leftContent
    /\ rightMode' = IF s = "right" THEN UploadMode(text) ELSE rightMode
    /\ rightContent' =
          IF s = "right" THEN setWithHistory(rightContent, text)
          ELSE rightContent
    /\ Rendered

\* the callback of a timer of the left validation effect, run when the
\* timer is due or later
LeftValidationTimeout ==
    \E t \in leftValidation.pending :
       /\ clock >= t.due
       /\ lastOp' = "validated"
       /\ side' = "left"
       /\ leftError' = Validated(t.mode, t.content)
       /\ leftValidation' =
             [leftValidation EXCEPT !.pending = leftValidation.pending \ {t}]
       /\ UNCHANGED <<rightError, rightValidation>>
       /\ UNCHANGED <<leftContent, rightContent, leftMode, rightMode, alerts>>
       /\ UNCHANGED <<typingVars, timeVars, diffVars, viewVars, schemaVars>>
       /\ UNCHANGED <<docKind, content, twin, normalizeWhitespace, result,
                      twinResult, semanticDiff>>

\* the callback of a timer of the right validation effect
RightValidationTimeout ==
    \E t \in rightValidation.pending :
       /\ clock >= t.due
       /\ lastOp' = "validated"
       /\ side' = "right"
       /\ rightError' = Validated(t.mode, t.content)
       /\ rightValidation' =
             [rightValidation EXCEPT
                 !.pending = rightValidation.pending \ {t}]
       /\ UNCHANGED <<leftError, leftValidation>>
       /\ UNCHANGED <<leftContent, rightContent, leftMode, rightMode, alerts>>
       /\ UNCHANGED <<typingVars, timeVars, diffVars, viewVars, schemaVars>>
       /\ UNCHANGED <<docKind, content, twin, normalizeWhitespace, result,
                      twinResult, semanticDiff>>

\* half a validation delay goes by while a timer waits
ValidationWait ==
    /\ \E t \in leftValidation.pending \cup rightValidation.pending :
          clock < t.due
    /\ clock' = clock + ValidationDelay \div 2
    /\ lastOp' = "wait"
    /\ UNCHANGED <<sideVars, typingVars, steps, validationVars, diffVars>>
    /\ UNCHANGED viewVars
    /\ UNCHANGED schemaVars
    /\ UNCHANGED <<docKind, content, twin, normalizeWhitespace, result,
                   twinResult, semanticDiff>>

NextValidation ==
    \/ \E s \in {"left", "right"} : \E val \in EditedTexts :
          Change("change", s) /\ onEditorChange(s, val)
    \/ \E s \in {"left", "right"} : \E text \in EditedTexts :
          Change("upload", s) /\ handleUpload(s, text)
    \/ LeftValidationTimeout
    \/ RightValidationTimeout
    \/ ValidationWait

SpecValidation == InitValidation /\ [][NextValidation]_vars

\* the event loop at work: time goes by, and a timer that is due gets its
\* callback run
ValidationTimers ==
    \/ ValidationWait
    \/ LeftValidationTimeout
    \/ RightValidationTimeout

SpecValidationFair == SpecValidation /\ WF_vars(ValidationTimers)

---------------------------------------------------------------------------
(* SpecSchema: the two schema validation effects, whose calls of the       *)
(* validator end in any order, and the handlers that change what the       *)
(* effects depend on                                                       *)

\* the texts of the schema: none, and a schema
SchemaTexts == {<<>>, <<"<", "s", "/", ">">>}

InitSchema == InitValidation

\* one more render after a change
Render(op, s) ==
    /\ steps < MaxRenders
    /\ steps' = steps + 1
    /\ lastOp' = op
    /\ side' = s

\* setXsdSchema(text), by the onChange of the schema panel
setXsdSchema(text) ==
    /\ Render("schema", "both")
    /\ xsdSchema' = text
    /\ UNCHANGED <<leftContent, rightContent, leftMode, rightMode, useLibxml>>
    /\ Rendered

\* setUseLibxml(!useLibxml), by the onClick of the validator button
setUseLibxml ==
    /\ Render("validator", "both")
    /\ useLibxml' = ~useLibxml
    /\ UNCHANGED <<leftContent, rightContent, leftMode, rightMode, xsdSchema>>
    /\ Rendered

\* what the end of a call does: the call threw, or its result is applied,
\* or its run is no longer active and the result is dropped
Ended(run, threw) ==
    IF threw THEN "schemaThrew"
    ELSE IF run.active THEN "schemaApplied" ELSE "schemaDropped"

\* a call of validateAgainstSchema of the left effect ends: after the await,
\* if (active) setLeftSchemaErrors(result.errors); a call that throws sets
\* nothing
LeftSchemaValidated ==
    \E r \in leftSchema.inflight : \E threw \in BOOLEAN :
       /\ lastOp' = Ended(r, threw)
       /\ side' = "left"
       /\ leftSchema' =
             [leftSchema EXCEPT !.inflight = leftSchema.inflight \ {r}]
       /\ leftSchemaErrors' =
             IF Ended(r, threw) = "schemaApplied" THEN SchemaErrorsOf(r)
             ELSE leftSchemaErrors
       /\ UNCHANGED <<xsdSchema, useLibxml, rightSchema, rightSchemaErrors>>
       /\ UNCHANGED <<leftContent, rightContent, leftMode, rightMode, alerts>>
       /\ UNCHANGED <<typingVars, timeVars, diffVars, validationVars>>
       /\ UNCHANGED viewVars
       /\ UNCHANGED <<docKind, content, twin, normalizeWhitespace, result,
                      twinResult, semanticDiff>>

\* a call of validateAgainstSchema of the right effect ends
RightSchemaValidated ==
    \E r \in rightSchema.inflight : \E threw \in BOOLEAN :
       /\ lastOp' = Ended(r, threw)
       /\ side' = "right"
       /\ rightSchema' =
             [rightSchema EXCEPT !.inflight = rightSchema.inflight \ {r}]
       /\ rightSchemaErrors' =
             IF Ended(r, threw) = "schemaApplied" THEN SchemaErrorsOf(r)
             ELSE rightSchemaErrors
       /\ UNCHANGED <<xsdSchema, useLibxml, leftSchema, leftSchemaErrors>>
       /\ UNCHANGED <<leftContent, rightContent, leftMode, rightMode, alerts>>
       /\ UNCHANGED <<typingVars, timeVars, diffVars, validationVars>>
       /\ UNCHANGED viewVars
       /\ UNCHANGED <<docKind, content, twin, normalizeWhitespace, result,
                      twinResult, semanticDiff>>

NextSchema ==
    \/ \E s \in {"left", "right"} : \E val \in EditedTexts :
          Render("change", s) /\ onEditorChange(s, val)
    \/ \E text \in SchemaTexts : setXsdSchema(text)
    \/ setUseLibxml
    \/ LeftSchemaValidated
    \/ RightSchemaValidated

SpecSchema == InitSchema /\ [][NextSchema]_vars

---------------------------------------------------------------------------
(* SpecView: the EDIT view and the DIFF view.  In the DIFF view every      *)
(* change of an option makes the effect call executeDiff, which sets a     *)
(* timer; the callbacks run in the order the timers were set, each on the  *)
(* state of the render that set its timer                                  *)

\* the texts of the two sides: they differ in white space only
ViewTexts == {<<"a">>, <<"a", " ">>}

InitView ==
    /\ NoDiff
    /\ NothingDone
    /\ content \in ViewTexts
    /\ twin \in ViewTexts
    /\ docKind = "text"
    /\ normalizeWhitespace = FALSE
    /\ semanticDiff = FALSE
    /\ leftContent = NewHistory(content)
    /\ rightContent = NewHistory(twin)
    /\ leftMode = "text"
    /\ rightMode = "text"
    /\ alerts = 0
    /\ side = "both"
    /\ NoTyping
    /\ NoEffects

\* what the callback of executeDiff reads: the state of the render that
\* made it
DiffClosure(opts, mode, semantic) ==
    [oldText |-> leftContent.present, newText |-> rightContent.present,
     leftMode |-> leftMode, rightMode |-> rightMode, options |-> opts,
     diffMode |-> mode, semanticDiff |-> semantic]

\* oldText or newText of the callback as computeDiff gets it
TextCompared(semantic, mode, text) ==
    IF semantic
    THEN SortedOrKept(SortDoc(mode, text, normalizeWhitespace), text)
    ELSE text

\* every result the computeDiff call of the callback may give
Comparisons(c) ==
    {computeDiff(chs, c.diffMode) :
        chs \in diffLines(
                   Preprocess(TextCompared(c.semanticDiff, c.leftMode,
                                           c.oldText),
                              c.options.ignoreBlankLines,
                              c.options.ignoreComments),
                   Preprocess(TextCompared(c.semanticDiff, c.rightMode,
                                           c.newText),
                              c.options.ignoreBlankLines,
                              c.options.ignoreComments),
                   c.options.ignoreWhitespace)}

\* the effect after a render that changed an option or the view: in the
\* DIFF view executeDiff(), which is setIsProcessing(true) and setTimeout
DiffEffect ==
    /\ IF viewState' = "DIFF"
       THEN /\ isProcessing' = TRUE
            /\ diffTimers' =
                  Append(diffTimers,
                         DiffClosure(options', diffMode', semanticDiff'))
       ELSE UNCHANGED <<isProcessing, diffTimers>>
    /\ UNCHANGED <<oldText, newText, changes, comparison, pc>>
    /\ UNCHANGED <<docKind, content, twin, normalizeWhitespace, result,
                   twinResult>>
    /\ UNCHANGED <<leftContent, rightContent, leftMode, rightMode, alerts>>
    /\ UNCHANGED <<typingVars, clock, validationVars, schemaVars>>

\* handleToggleView
handleToggleView ==
    /\ Render("view", side)
    /\ viewState' = IF viewState = "EDIT" THEN "DIFF" ELSE "EDIT"
    /\ UNCHANGED <<options, diffMode, semanticDiff>>
    /\ DiffEffect

\* setDiffMode(m) of the toolbar
setDiffMode(m) ==
    /\ m # diffMode
    /\ Render("diffMode", side)
    /\ diffMode' = m
    /\ UNCHANGED <<options, viewState, semanticDiff>>
    /\ DiffEffect

\* setIgnoreWhitespace(b) of the toolbar
setIgnoreWhitespace(b) ==
    /\ b # options.ignoreWhitespace
    /\ Render("ignoreWhitespace", side)
    /\ options' = [options EXCEPT !.ignoreWhitespace = b]
    /\ UNCHANGED <<diffMode, viewState, semanticDiff>>
    /\ DiffEffect

\* setIgnoreBlankLines(b) of the toolbar
setIgnoreBlankLines(b) ==
    /\ b # options.ignoreBlankLines
    /\ Render("ignoreBlankLines", side)
    /\ options' = [options EXCEPT !.ignoreBlankLines = b]
    /\ UNCHANGED <<diffMode, viewState, semanticDiff>>
    /\ DiffEffect

\* setIgnoreComments(b) of the toolbar
setIgnoreComments(b) ==
    /\ b # options.ignoreComments
    /\ Render("ignoreComments", side)
    /\ options' = [options EXCEPT !.ignoreComments = b]
    /\ UNCHANGED <<diffMode, viewState, semanticDiff>>
    /\ DiffEffect

\* setSemanticDiff(b) of the toolbar
setSemanticDiff(b) ==
    /\ b # semanticDiff
    /\ Render("semanticDiff", side)
    /\ semanticDiff' = b
    /\ UNCHANGED <<options, diffMode, viewState>>
    /\ DiffEffect

\* the callback of the oldest timer of executeDiff: computeDiff on what the
\* callback captured, setComparison(result), setIsProcessing(false)
DiffTimeout ==
    /\ diffTimers # <<>>
    /\ comparison' \in Comparisons(Head(diffTimers))
    /\ isProcessing' = FALSE
    /\ diffTimers' = Tail(diffTimers)
    /\ lastOp' = "compared"
    /\ UNCHANGED <<oldText, newText, options, changes, pc>>
    /\ UNCHANGED <<docKind, content, twin, normalizeWhitespace, result,
                   twinResult, semanticDiff>>
    /\ UNCHANGED <<sideVars, typingVars, timeVars, validationVars>>
    /\ UNCHANGED <<schemaVars, viewState, diffMode>>

NextView ==
    \/ handleToggleView
    \/ \E m \in DiffModes : setDiffMode(m)
    \/ \E b \in BOOLEAN : setIgnoreWhitespace(b)
    \/ \E b \in BOOLEAN : setIgnoreBlankLines(b)
    \/ \E b \in BOOLEAN : setIgnoreComments(b)
    \/ \E b \in BOOLEAN : setSemanticDiff(b)
    \/ DiffTimeout

SpecView == InitView /\ [][NextView]_vars

---------------------------------------------------------------------------
(* Claims about computeDiff                                                *)

\* the number of lines of a text: its line tokens, so that a final newline
\* ends the last line and starts no new one
LineCount(text) == Len(Tokenize(text))

\* the line of a token: the token without its newline
TokenLine(token) == StripFinalNL(token)

TypesOf(recs) == [i \in 1..Len(recs) |-> recs[i].type]

CountOfTypes(recs, types) ==
    Cardinality({i \in 1..Len(recs) : recs[i].type \in types})

\* C1: for every pair of texts and every combination of mode and ignore
\* flags, computeDiff returns leftLines and rightLines of equal length.
C1_SplitLengthsEqual ==
    pc = "done" => Len(comparison.leftLines) = Len(comparison.rightLines)

\* a result with a replacement block whose sides differ in length, so that
\* one column is padded with a phantom, under ignoreWhitespace
C1_Witness ==
    /\ pc = "done"
    /\ options.ignoreWhitespace
    /\ comparison.diffMode = "words"
    /\ Len(comparison.leftLines) = 2
    /\ TypesOf(comparison.leftLines) = <<"removed", "phantom">>
    /\ TypesOf(comparison.rightLines) = <<"added", "added">>

\* C2: the unified records of kind removed or unchanged are as many as the
\* lines of the preprocessed old text, and those of kind added or unchanged
\* as many as the lines of the preprocessed new text.
C2_UnifiedComplete ==
    pc = "done" =>
        /\ CountOfTypes(comparison.unifiedLines, {"removed", "unchanged"})
               = LineCount(finalOld)
        /\ CountOfTypes(comparison.unifiedLines, {"added", "unchanged"})
               = LineCount(finalNew)

\* the lines of the run of one Change: one per line token of its value
RunLines(change) ==
    LET tokens == Tokenize(change.value)
    IN  [k \in 1..Len(tokens) |-> TokenLine(tokens[k])]

\* a record without its line number
Shown(rec) == [type |-> rec.type, value |-> rec.value]

\* row j of a change block of removed lines r and added lines a, as claimed
ClaimedRow(r, a, j) ==
    <<IF j <= Len(r) THEN [type |-> "removed", value |-> r[j]]
                     ELSE Phantom,
      IF j <= Len(a) THEN [type |-> "added", value |-> a[j]]
                     ELSE Phantom>>

RECURSIVE ClaimedBlockRows(_, _)
\* the rows claimed for the change blocks from change i on: a removed run
\* and the added run right after it are one block
ClaimedBlockRows(chs, i) ==
    IF i > Len(chs) THEN <<>>
    ELSE IF ~chs[i].removed /\ ~chs[i].added
    THEN ClaimedBlockRows(chs, i + 1)
    ELSE LET paired == chs[i].removed /\ i + 1 <= Len(chs) /\ chs[i + 1].added
             r == IF chs[i].removed THEN RunLines(chs[i]) ELSE <<>>
             a == IF paired THEN RunLines(chs[i + 1])
                  ELSE IF chs[i].added THEN RunLines(chs[i]) ELSE <<>>
         IN  [j \in 1..Max(Len(r), Len(a)) |-> ClaimedRow(r, a, j)] \o
             ClaimedBlockRows(chs, IF paired THEN i + 2 ELSE i + 1)

\* the rows of the split view that are not unchanged rows, without numbers
ChangedRows(cmp) ==
    LET rows == [i \in 1..Len(cmp.leftLines) |->
                    <<Shown(cmp.leftLines[i]), Shown(cmp.rightLines[i])>>]
    IN  SelectSeq(rows, LAMBDA row : row[1].type # "unchanged")

\* C3: every maximal change block of r removed lines followed by a added
\* lines gives exactly max(r, a) rows: row j has the j-th removed line on
\* the left if j < r and a phantom otherwise, the j-th added line on the
\* right if j < a and a phantom otherwise.
C3_ReplacementBlocks ==
    pc = "done" => ChangedRows(comparison) = ClaimedBlockRows(changes, 1)

\* the numbers a column shows, in order of appearance
NumbersOf(recs, types, field) ==
    LET shown == SelectSeq(recs, LAMBDA rec : rec.type \in types)
    IN  [i \in 1..Len(shown) |-> shown[i][field]]

OneTo(k) == [i \in 1..k |-> i]

\* C4: on each side the line numbers are consecutive from 1 in order of
\* appearance, up to the line count of that side's preprocessed text, in
\* unifiedLines as in leftLines and rightLines.
C4_LineNumbersConsecutive ==
    pc = "done" =>
        /\ NumbersOf(comparison.unifiedLines, {"removed", "unchanged"},
                     "oldLineNumber") = OneTo(LineCount(finalOld))
        /\ NumbersOf(comparison.unifiedLines, {"added", "unchanged"},
                     "newLineNumber") = OneTo(LineCount(finalNew))
        /\ NumbersOf(comparison.leftLines, {"removed", "unchanged"},
                     "lineNumber") = OneTo(LineCount(finalOld))
        /\ NumbersOf(comparison.rightLines, {"added", "unchanged"},
                     "lineNumber") = OneTo(LineCount(finalNew))

---------------------------------------------------------------------------
(* Claims about the formatters and the sorters, over SpecDoc               *)

\* the text parses as a document of its kind
Parses(kind, text) ==
    IF kind = "json" THEN JsonParse(text).ok ELSE parseFromString(text).ok

Structured == docKind \in {"xml", "json"}

\* C5 as stated: on every input that does not parse, white space alone
\* included, formatXML and formatJSON return the input unchanged and do
\* not throw
C5_FormatFailSoft ==
    (lastOp = "format" /\ Structured /\ ~Parses(docKind, content))
        => result = Returned(content)

\* C5 as amended: on every input that does not parse, formatXML and
\* formatJSON do not throw; they return the empty string when the input is
\* empty or white space alone and the input unchanged otherwise
C5_FormatFailSoftNonBlank ==
    (lastOp = "format" /\ Structured /\ ~Parses(docKind, content))
        => result = Returned(IF Trim(content) = <<>> THEN <<>> ELSE content)

C5_Witness ==
    /\ lastOp = "format"
    /\ docKind = "xml"
    /\ ~Parses(docKind, content)
    /\ Trim(content) # <<>>
    /\ result = Returned(content)

\* C6, on the inputs that hold more than white space: on every such input
\* that does not parse, sortXML and sortJSON fail with an error and return
\* no string, the input least of all
C6_SortFailsOnUnparseable ==
    (/\ lastOp = "sort" /\ Structured
     /\ Trim(content) # <<>> /\ ~Parses(docKind, content))
        => result.threw

\* C7: formatting a parseable document twice gives what formatting it once
\* gives, for formatXML with either value of normalizeWhitespace and for
\* formatJSON
C7_FormatIdempotent ==
    (lastOp = "format" /\ Structured /\ Parses(docKind, content))
        => FormatDoc(docKind, result.text, normalizeWhitespace) = result

\* C8: where sort succeeds, sorting its output again gives the same
\* output, for sortXML, sortJSON and sortText
C8_SortIdempotent ==
    (lastOp = "sort" /\ ~result.threw)
        => SortDoc(docKind, result.text, normalizeWhitespace) = result

RECURSIVE SameUpToKeyOrder(_, _)
\* two JSON values that differ at most in the order of object keys
SameUpToKeyOrder(v, w) ==
    IF v.t # w.t THEN FALSE
    ELSE IF v.t = "arr"
    THEN /\ Len(v.items) = Len(w.items)
         /\ \A k \in 1..Len(v.items) : SameUpToKeyOrder(v.items[k], w.items[k])
    ELSE IF v.t = "obj"
    THEN /\ Len(v.props) = Len(w.props)
         /\ \A i \in 1..Len(v.props) : \E j \in 1..Len(w.props) :
                /\ v.props[i].key = w.props[j].key
                /\ SameUpToKeyOrder(v.props[i].val, w.props[j].val)
    ELSE v = w

\* C9: two parseable JSON documents that differ only in the order of
\* object keys and in white space have the same sortJSON output
C9_SortJsonKeyOrderBlind ==
    (/\ lastOp = "sort" /\ docKind = "json"
     /\ Parses("json", content) /\ Parses("json", twin)
     /\ SameUpToKeyOrder(JsonParse(content).v, JsonParse(twin).v))
        => result = twinResult

C9_Witness ==
    /\ lastOp = "sort" /\ docKind = "json"
    /\ Parses("json", content) /\ Parses("json", twin)
    /\ JsonParse(content).v # JsonParse(twin).v
    /\ SameUpToKeyOrder(JsonParse(content).v, JsonParse(twin).v)
    /\ \E k \in 1..Len(content) : content[k] = "["
    /\ result = twinResult

RECURSIVE InCodePointOrder(_)
\* a JSON value with the keys of every object in code-point order, the
\* arrays as they are
InCodePointOrder(v) ==
    IF v.t = "arr"
    THEN [t |-> "arr",
          items |-> [k \in 1..Len(v.items) |-> InCodePointOrder(v.items[k])]]
    ELSE IF v.t = "obj"
    THEN LET sorted == SortBy([k \in 1..Len(v.props) |->
                                  [key |-> v.props[k].key, item |-> v.props[k]]],
                              "codeUnit")
         IN  [t |-> "obj",
              props |-> [k \in 1..Len(sorted) |->
                            [key |-> sorted[k].key,
                             val |-> InCodePointOrder(sorted[k].item.val)]]]
    ELSE v

\* C10: the output of sortJSON shows the keys of every object, those that
\* look like numbers included, in code-point order, and every array in
\* the order of the input with its elements sorted in the same way
C10_SortJsonCodePointOrder ==
    (lastOp = "sort" /\ docKind = "json" /\ Parses("json", content))
        => result.text = Stringify(InCodePointOrder(JsonParse(content).v), 0)

---------------------------------------------------------------------------
(* Claims about formatXML, over SpecDoc                                    *)

\* the document formatXML was given and the document it gave back
InputDoc == parseFromString(content)

OutputDoc == parseFromString(result.text)

FormattedXml ==
    /\ lastOp = "format" /\ docKind = "xml"
    /\ Parses("xml", content) /\ Parses("xml", result.text)

RECURSIVE Unaltered(_, _, _)
\* the node given and the node given back hold the same nodes in the same
\* places, attributes left aside: nothing is added between them; a text is
\* the same text when exact, and holds no newline otherwise
Unaltered(given, back, exact) ==
    /\ given.k = back.k
    /\ IF IsElement(given)
       THEN /\ given.tagName = back.tagName
            /\ Len(given.childNodes) = Len(back.childNodes)
            /\ \A i \in 1..Len(given.childNodes) :
                  i <= Len(back.childNodes) =>
                      Unaltered(given.childNodes[i], back.childNodes[i], exact)
       ELSE IF IsText(given) /\ ~exact
       THEN \A i \in 1..Len(back.data) : back.data[i] # NL
       ELSE given.data = back.data

RECURSIVE MixedUnaltered(_, _, _)
\* every mixed-content element of the node given comes back unaltered
MixedUnaltered(given, back, exact) ==
    IF ~IsElement(given) THEN TRUE
    ELSE IF ~IsElement(back) THEN FALSE
    ELSE IF hasMixedContent(given) THEN Unaltered(given, back, exact)
    ELSE LET g == SelectSeq(given.childNodes, IsElement)
             b == SelectSeq(back.childNodes, IsElement)
         IN  /\ Len(g) = Len(b)
             /\ \A i \in 1..Len(g) :
                   i <= Len(b) => MixedUnaltered(g[i], b[i], exact)

\* the root element of a parsed document
RootOf(doc) == SelectSeq(doc.childNodes, IsElement)[1]

\* C11: formatXML adds no newline and no indentation anywhere between the
\* opening and the closing tag of a mixed-content element, whatever its
\* children are, and with normalizeWhitespace off its text children come
\* back exactly as given
C11_MixedContentInline ==
    FormattedXml =>
        MixedUnaltered(RootOf(InputDoc), RootOf(OutputDoc),
                       ~normalizeWhitespace)

\* the texts of the text children of a node, in document order
TextData(node) ==
    LET texts == SelectSeq(node.childNodes, IsText)
    IN  [i \in 1..Len(texts) |-> texts[i].data]

\* the texts of a list that are not empty
NonEmpty(list) == SelectSeq(list, LAMBDA t : t # <<>>)

\* a text with its runs of white space collapsed, and trimmed at the ends
\* named
Normalized(text, atStart, atEnd) ==
    LET collapsed == CollapseSpace(text)
        started == IF atStart THEN TrimStart(collapsed) ELSE collapsed
    IN  IF atEnd THEN TrimEnd(started) ELSE started

\* the text children normalized, the first and the last of them trimmed
\* wherever they stand among the children
TrimmedByText(node) ==
    LET texts == TextData(node)
    IN  NonEmpty([i \in 1..Len(texts) |->
                     Normalized(texts[i], i = 1, i = Len(texts))])

\* the text children normalized, a text trimmed at its start only as the
\* first child node and at its end only as the last child node
TrimmedByNode(node) ==
    LET kids == node.childNodes
    IN  NonEmpty([i \in 1..Len(kids) |->
                     IF IsText(kids[i])
                     THEN Normalized(kids[i].data, i = 1, i = Len(kids))
                     ELSE <<>>])

RECURSIVE MixedTextsNormalized(_, _, _)
\* every mixed-content element of the node given comes back with its text
\* children normalized, trimmed by node position or by text position
MixedTextsNormalized(given, back, byNode) ==
    IF ~IsElement(given) THEN TRUE
    ELSE IF ~IsElement(back) THEN FALSE
    ELSE LET g == SelectSeq(given.childNodes, IsElement)
             b == SelectSeq(back.childNodes, IsElement)
         IN  /\ hasMixedContent(given) =>
                    TextData(back) = (IF byNode THEN TrimmedByNode(given)
                                      ELSE TrimmedByText(given))
             /\ Len(g) = Len(b)
             /\ \A i \in 1..Len(g) :
                   i <= Len(b) => MixedTextsNormalized(g[i], b[i], byNode)

\* C12 as stated: with normalizeWhitespace set, formatXML collapses every
\* run of white space in the text children of a mixed-content element to
\* one space and trims the start of the element's first text child and the
\* end of its last text child, wherever these stand among the children
C12_NormalizeTrimsFirstAndLastText ==
    (FormattedXml /\ normalizeWhitespace) =>
        MixedTextsNormalized(RootOf(InputDoc), RootOf(OutputDoc), FALSE)

\* C12 as amended: with normalizeWhitespace set, formatXML collapses every
\* run of white space in the text children of a mixed-content element to
\* one space; it trims the start of a text child only when that text is
\* the element's first child node and the end of a text child only when
\* that text is the element's last child node
C12_NormalizeTrimsAtElementEdges ==
    (FormattedXml /\ normalizeWhitespace) =>
        MixedTextsNormalized(RootOf(InputDoc), RootOf(OutputDoc), TRUE)

\* a mixed-content root whose first text child follows an element and
\* keeps one leading space
C12_Witness ==
    /\ FormattedXml /\ normalizeWhitespace
    /\ hasMixedContent(RootOf(InputDoc))
    /\ IsElement(RootOf(InputDoc).childNodes[1])
    /\ TextData(RootOf(InputDoc))[1] = <<" ", "x", " ", " ", "y", " ">>
    /\ TextData(RootOf(OutputDoc)) = << <<" ", "x", " ", "y">> >>

\* the element holds one child, a text node
SingleTextChild(node) ==
    IsElement(node) /\ Len(node.childNodes) = 1 /\ IsText(node.childNodes[1])

\* a text without a newline
OneLine(text) == \A i \in 1..Len(text) : text[i] # NL

RECURSIVE SingleTextKeptInline(_, _)
\* every element of the node given whose only child is a text of one line
\* comes back with one child, a text of one line
SingleTextKeptInline(given, back) ==
    IF ~IsElement(given) THEN TRUE
    ELSE IF ~IsElement(back) THEN FALSE
    ELSE LET g == SelectSeq(given.childNodes, IsElement)
             b == SelectSeq(back.childNodes, IsElement)
         IN  /\ (SingleTextChild(given) /\ OneLine(given.childNodes[1].data))
                    => (SingleTextChild(back) /\
                        OneLine(back.childNodes[1].data))
             /\ Len(g) = Len(b)
             /\ \A i \in 1..Len(g) :
                   i <= Len(b) => SingleTextKeptInline(g[i], b[i])

\* C13: formatXML writes every element whose only child is a single text
\* node on one line, as start tag, content, end tag, whatever the text is,
\* white space alone included: such an element comes back with nothing
\* but a text of one line between its tags, and a document that is one
\* such element comes back as one line
C13_SingleTextInline ==
    FormattedXml =>
        /\ SingleTextKeptInline(RootOf(InputDoc), RootOf(OutputDoc))
        /\ (/\ Len(InputDoc.childNodes) = 1 /\ ~InputDoc.declared
            /\ SingleTextChild(RootOf(InputDoc))
            /\ OneLine(content)) => OneLine(result.text)

\* the places of a character in a text
Places(text, ch) == {i \in 1..Len(text) : text[i] = ch}

\* the text holds a double quote outside every tag: after the last "<"
\* before it comes a ">"
QuoteInText(text) ==
    \E i \in Places(text, Quote) :
        \A j \in Places(text, "<") :
            j < i => \E m \in Places(text, ">") : j < m /\ m < i

\* a text with &, < and > replaced by entities, and the double quote too
\* when asked
WithEntities(str, quoteToo) ==
    Concat([k \in 1..Len(str) |->
               IF str[k] = Quote /\ ~quoteToo THEN <<Quote>>
               ELSE escapeXml(<<str[k]>>)])

\* an element without children as the claim writes it
EmptyElementText(el) ==
    <<"<">> \o el.tagName \o
    Concat([k \in 1..Len(el.attributes) |->
               <<" ">> \o el.attributes[k].name \o <<"=", Quote>> \o
               WithEntities(el.attributes[k].value, TRUE) \o <<Quote>>]) \o
    <<"/", ">">>

\* C14: in the output of formatXML attribute values have &, <, > and the
\* double quote replaced by entities and text has only &, < and > replaced:
\* a double quote of the text comes out as a double quote
C14_QuoteLiteralInText ==
    FormattedXml =>
        /\ (/\ Len(InputDoc.childNodes) = 1 /\ ~InputDoc.declared
            /\ RootOf(InputDoc).childNodes = <<>>)
               => result.text = EmptyElementText(RootOf(InputDoc))
        /\ (\E i \in 1..Len(RootOf(InputDoc).childNodes) :
               /\ IsText(RootOf(InputDoc).childNodes[i])
               /\ Places(RootOf(InputDoc).childNodes[i].data, Quote) # {})
               => QuoteInText(result.text)

---------------------------------------------------------------------------
(* Claims about formatJSON, over SpecDoc                                   *)

RECURSIVE KeySequence(_, _)
\* the object keys of a JSON text from place i on, in the order in which
\* the text holds them: the strings that a colon follows
KeySequence(text, i) ==
    IF i > Len(text) THEN <<>>
    ELSE IF text[i] # Quote THEN KeySequence(text, i + 1)
    ELSE LET close == IndexOf(text, i + 1, <<Quote>>)
             after == IF close = 0 THEN 0 ELSE SkipWs(text, close + 1)
         IN  IF close = 0 THEN <<>>
             ELSE IF after <= Len(text) /\ text[after] = ":"
             THEN <<SubSeq(text, i + 1, close - 1)>> \o
                  KeySequence(text, close + 1)
             ELSE KeySequence(text, close + 1)

\* the number of spaces a line starts with
LeadingSpaces(line) == Len(line) - Len(TrimStart(line))

\* C15: formatJSON emits the keys of every object in the order in which
\* the input text holds them, numeric-looking keys included, and indents
\* by two spaces a level
C15_FormatJsonKeepsKeyOrder ==
    (lastOp = "format" /\ docKind = "json" /\ Parses("json", content))
        => /\ ~result.threw
           /\ KeySequence(result.text, 1) = KeySequence(content, 1)
           /\ \A k \in 1..Len(SplitNL(result.text)) :
                 /\ LeadingSpaces(SplitNL(result.text)[k]) % 2 = 0
                 /\ k = 2 => LeadingSpaces(SplitNL(result.text)[k]) \in {0, 2}

---------------------------------------------------------------------------
(* Claims about sortXML, over SpecDoc                                      *)

SortedXml ==
    /\ lastOp = "sort" /\ docKind = "xml"
    /\ Parses("xml", content) /\ ~result.threw /\ Parses("xml", result.text)

\* the names of the child elements of a node, in document order
ChildNames(node) ==
    LET els == SelectSeq(node.childNodes, IsElement)
    IN  [i \in 1..Len(els) |-> els[i].tagName]

\* the child elements of a node that bear the name, in document order
ChildrenNamed(node, name) ==
    SelectSeq(node.childNodes,
              LAMBDA c : IsElement(c) /\ c.tagName = name)

\* the texts of a node that hold more than white space, white space
\* normalized
VisibleTexts(node) ==
    LET texts == TextData(node)
    IN  NonEmpty([i \in 1..Len(texts) |->
                     Normalized(texts[i], TRUE, TRUE)])

\* the list of names is in order: no name is followed by a lesser one
NamesInOrder(names, order) ==
    \A i, j \in 1..Len(names) :
        i < j => ~KeyLess(order, names[j], names[i])

RECURSIVE ChildrenSorted(_, _, _)
\* the element given comes back with its own texts and attribute names;
\* without mixed content its child elements come back in the order of
\* their names, those of one name in the order given; with mixed content
\* they come back in the order given; and the same holds of every child
ChildrenSorted(given, back, order) ==
    /\ IsElement(back)
    /\ given.tagName = back.tagName
    /\ {given.attributes[i].name : i \in 1..Len(given.attributes)} =
       {back.attributes[i].name : i \in 1..Len(back.attributes)}
    /\ VisibleTexts(given) = VisibleTexts(back)
    /\ Len(ChildNames(given)) = Len(ChildNames(back))
    /\ IF hasMixedContent(given)
       THEN ChildNames(given) = ChildNames(back)
       ELSE NamesInOrder(ChildNames(back), order)
    /\ \A name \in {ChildNames(given)[i] : i \in 1..Len(ChildNames(given))} :
          /\ Len(ChildrenNamed(given, name)) = Len(ChildrenNamed(back, name))
          /\ \A i \in 1..Len(ChildrenNamed(given, name)) :
                i <= Len(ChildrenNamed(back, name)) =>
                    ChildrenSorted(ChildrenNamed(given, name)[i],
                                   ChildrenNamed(back, name)[i], order)

\* C16 as stated: in the output of sortXML the child elements of every
\* element without mixed text content are in lexicographic order of their
\* tag names, character by character, equal-named siblings in their
\* original relative order; the children of an element with mixed text
\* content are in their original order; and both kinds of children are
\* themselves sorted
C16_ChildrenInLexicographicOrder ==
    SortedXml =>
        ChildrenSorted(RootOf(InputDoc), RootOf(OutputDoc), "codeUnit")

\* C16 as amended: the same with the order of localeCompare on the tag
\* names, in which "a" comes before "B", in place of the lexicographic
\* order of the characters
C16_ChildrenInLocaleOrder ==
    SortedXml =>
        ChildrenSorted(RootOf(InputDoc), RootOf(OutputDoc), "locale")

\* child elements B, a without mixed content come back as a, B
C16_Witness ==
    /\ SortedXml
    /\ ~hasMixedContent(RootOf(InputDoc))
    /\ ChildNames(RootOf(InputDoc)) = << <<"B">>, <<"a">> >>
    /\ ChildNames(RootOf(OutputDoc)) = << <<"a">>, <<"B">> >>

\* the names of the attributes of an element, in document order
AttrNames(node) == [i \in 1..Len(node.attributes) |-> node.attributes[i].name]

\* the value of the attribute of an element that bears the name
AttrValue(node, name) ==
    LET i == CHOOSE i \in 1..Len(node.attributes) :
                 node.attributes[i].name = name
    IN  node.attributes[i].value

RECURSIVE AttributesSorted(_, _, _)
\* the element given comes back with the same attributes, each with the
\* value given, in the order of their names; and so does every child
\* element, those of one name taken in the order given
AttributesSorted(given, back, order) ==
    /\ IsElement(back)
    /\ NamesInOrder(AttrNames(back), order)
    /\ Len(AttrNames(given)) = Len(AttrNames(back))
    /\ \A i \in 1..Len(given.attributes) :
          /\ \E j \in 1..Len(back.attributes) :
                back.attributes[j].name = given.attributes[i].name
          /\ (\E j \in 1..Len(back.attributes) :
                 back.attributes[j].name = given.attributes[i].name)
                => AttrValue(back, given.attributes[i].name) =
                   given.attributes[i].value
    /\ \A name \in {ChildNames(given)[i] : i \in 1..Len(ChildNames(given))} :
          /\ Len(ChildrenNamed(given, name)) = Len(ChildrenNamed(back, name))
          /\ \A i \in 1..Len(ChildrenNamed(given, name)) :
                i <= Len(ChildrenNamed(back, name)) =>
                    AttributesSorted(ChildrenNamed(given, name)[i],
                                     ChildrenNamed(back, name)[i], order)

\* C17: in the output of sortXML the attributes of every element, those
\* inside mixed-content elements too, are in lexicographic order of their
\* names, each with the value it had
C17_AttributesInOrderValuesKept ==
    SortedXml =>
        AttributesSorted(RootOf(InputDoc), RootOf(OutputDoc), "codeUnit")

---------------------------------------------------------------------------
(* Claims about the options of computeDiff, over SpecDiff                  *)

RECURSIVE CommentFree(_, _, _)
\* the text from place i on without its comments, read character by
\* character: a comment opens at a "<!--" that a "-->" follows and closes
\* at the first "-->" after it
CommentFree(s, i, inComment) ==
    IF i > Len(s) THEN <<>>
    ELSE IF inComment
    THEN IF StartsWithAt(s, i, CommentClose)
         THEN CommentFree(s, i + Len(CommentClose), FALSE)
         ELSE CommentFree(s, i + 1, TRUE)
    ELSE IF /\ StartsWithAt(s, i, CommentOpen)
            /\ IndexOf(s, i + Len(CommentOpen), CommentClose) # 0
    THEN CommentFree(s, i + Len(CommentOpen), TRUE)
    ELSE <<s[i]>> \o CommentFree(s, i + 1, FALSE)

\* the text that is compared: without its comments under ignoreComments
Compared(text) ==
    IF options.ignoreComments THEN CommentFree(text, 1, FALSE) ELSE text

\* the lines of a text that hold more than white space
NonBlankLines(text) ==
    SelectSeq(SplitNL(text), LAMBDA line : Trim(line) # <<>>)

\* all records of the three lists are unchanged records
OnlyUnchanged ==
    /\ \A k \in 1..Len(comparison.unifiedLines) :
          comparison.unifiedLines[k].type = "unchanged"
    /\ \A k \in 1..Len(comparison.leftLines) :
          comparison.leftLines[k].type = "unchanged"
    /\ \A k \in 1..Len(comparison.rightLines) :
          comparison.rightLines[k].type = "unchanged"

\* the records are the lines given, each numbered by its place
RecordsAre(lines) ==
    /\ Len(comparison.unifiedLines) = Len(lines)
    /\ Len(comparison.leftLines) = Len(lines)
    /\ Len(comparison.rightLines) = Len(lines)
    /\ \A k \in 1..Len(lines) :
          /\ k <= Len(comparison.unifiedLines) =>
                /\ comparison.unifiedLines[k].value = lines[k]
                /\ comparison.unifiedLines[k].oldLineNumber = k
                /\ comparison.unifiedLines[k].newLineNumber = k
          /\ k <= Len(comparison.leftLines) =>
                /\ comparison.leftLines[k].value = lines[k]
                /\ comparison.leftLines[k].lineNumber = k
          /\ k <= Len(comparison.rightLines) =>
                /\ comparison.rightLines[k].value = lines[k]
                /\ comparison.rightLines[k].lineNumber = k

\* C18: with ignoreBlankLines set, every line whose trimmed content is
\* empty is dropped from both texts before the alignment: two texts with
\* the same sequence of non-blank lines give unchanged records only, one
\* for each non-blank line, numbered by its place among the non-blank lines
C18_BlankLinesIgnored ==
    (/\ pc = "done" /\ options.ignoreBlankLines
     /\ NonBlankLines(Compared(oldText)) = NonBlankLines(Compared(newText)))
        => /\ OnlyUnchanged
           /\ RecordsAre(NonBlankLines(Compared(newText)))

\* old "a", empty line, "a" against new "a", "a": two unchanged records
C18_Witness ==
    /\ pc = "done" /\ options.ignoreBlankLines
    /\ oldText = <<"a", NL, NL, "a">>
    /\ newText = <<"a", NL, "a">>
    /\ OnlyUnchanged
    /\ Len(comparison.unifiedLines) = 2
    /\ comparison.unifiedLines[2].oldLineNumber = 2

\* no record of the three lists is an added or a removed record
NoAddedNoRemoved ==
    /\ \A k \in 1..Len(comparison.unifiedLines) :
          comparison.unifiedLines[k].type \notin {"added", "removed"}
    /\ \A k \in 1..Len(comparison.leftLines) :
          comparison.leftLines[k].type \notin {"added", "removed"}
    /\ \A k \in 1..Len(comparison.rightLines) :
          comparison.rightLines[k].type \notin {"added", "removed"}

\* C19: with ignoreComments set, every comment, from "<!--" to the first
\* "-->" after it, across lines, is removed from both texts before blank
\* lines are dropped and before the alignment: two texts that differ only
\* inside comments give no added and no removed record, and with
\* ignoreBlankLines set as well neither do two texts that differ only in
\* comments and in lines holding nothing but comments
C19_CommentsIgnored ==
    (pc = "done" /\ options.ignoreComments) =>
        /\ CommentFree(oldText, 1, FALSE) = CommentFree(newText, 1, FALSE)
              => NoAddedNoRemoved
        /\ (/\ options.ignoreBlankLines
            /\ NonBlankLines(CommentFree(oldText, 1, FALSE)) =
               NonBlankLines(CommentFree(newText, 1, FALSE)))
              => NoAddedNoRemoved

\* a line that holds only a comment stands in the old text and not in the
\* new one: two unchanged records
C19_Witness ==
    /\ pc = "done" /\ options.ignoreComments /\ options.ignoreBlankLines
    /\ oldText = <<"a", NL>> \o CommentOpen \o <<"a">> \o CommentClose \o
                 <<NL, "a">>
    /\ newText = <<"a", NL, "a">>
    /\ NoAddedNoRemoved
    /\ Len(comparison.unifiedLines) = 2

---------------------------------------------------------------------------
(* Claims about the semantic diff, over SpecSemantic                       *)

\* the two sides parse, and the right side is the left side with
\* attributes reordered and with the child elements of elements without
\* mixed content reordered
ReorderedSides ==
    /\ docKind = "xml"
    /\ Parses("xml", content) /\ Parses("xml", twin)
    /\ parseFromString(twin).declared = parseFromString(content).declared
    /\ parseFromString(twin).childNodes \in
           ChildReorderings(parseFromString(content).childNodes)

\* C20 as stated: with semantic diff on, two XML documents that parse and
\* differ only in the order of attributes or in the order of the sibling child
\* elements of elements without mixed text, siblings of one tag name
\* included, are compared without an added and without a removed record
C20_SemanticDiffOrderBlind ==
    (pc = "done" /\ semanticDiff /\ ReorderedSides) => NoAddedNoRemoved

RECURSIVE SameNamedInOrder(_, _)
\* the two nodes hold the child elements of each tag name in the same
\* relative order: they differ at most in the order of attributes and in
\* the order of child elements of different tag names
SameNamedInOrder(given, other) ==
    IF ~IsElement(given) THEN given = other
    ELSE /\ IsElement(other)
         /\ given.tagName = other.tagName
         /\ {given.attributes[i] : i \in 1..Len(given.attributes)} =
            {other.attributes[i] : i \in 1..Len(other.attributes)}
         /\ SelectSeq(given.childNodes, LAMBDA c : ~IsElement(c)) =
            SelectSeq(other.childNodes, LAMBDA c : ~IsElement(c))
         /\ \A name \in {ChildNames(given)[i] :
                            i \in 1..Len(ChildNames(given))} :
               /\ Len(ChildrenNamed(given, name)) =
                  Len(ChildrenNamed(other, name))
               /\ \A i \in 1..Len(ChildrenNamed(given, name)) :
                     i <= Len(ChildrenNamed(other, name)) =>
                         SameNamedInOrder(ChildrenNamed(given, name)[i],
                                          ChildrenNamed(other, name)[i])

\* C20 as amended: with semantic diff on, two XML documents that parse and
\* differ only in the order of attributes or in the order of sibling child
\* elements of different tag names, in elements without mixed text, are
\* compared without an added and without a removed record
C20_SemanticDiffBlindToNamedOrder ==
    (/\ pc = "done" /\ semanticDiff /\ ReorderedSides
     /\ SameNamedInOrder(RootOf(parseFromString(content)),
                         RootOf(parseFromString(twin))))
        => NoAddedNoRemoved

\* siblings a, B on one side and B, a on the other: the sorted texts are
\* the same and every record is unchanged
C20_Witness ==
    /\ pc = "done" /\ semanticDiff /\ ReorderedSides
    /\ ChildNames(RootOf(parseFromString(content))) = << <<"B">>, <<"a">> >>
    /\ ChildNames(RootOf(parseFromString(twin))) = << <<"a">>, <<"B">> >>
    /\ oldText = newText
    /\ comparison.unifiedLines # <<>>
    /\ NoAddedNoRemoved

---------------------------------------------------------------------------
(* Claims about the two sides, over SpecSides                              *)

\* the text is a document of the mode; every text is one in text mode
ParsesIn(mode, text) == mode = "text" \/ Parses(mode, text)

\* the sorter of the mode fails on the text: it does not parse, and it is
\* not a blank text, for which the sorters return the empty text unparsed
FailsToSort(mode, text) ==
    /\ ~ParsesIn(mode, text)
    /\ Trim(text) # <<>>

\* Prettify on a side that held a text gave the formatted text and saved
\* the text in the history
Prettified(curr, mode, text) ==
    /\ curr.present = FormatDoc(mode, text, normalizeWhitespace).text
    /\ curr.past = <<text>>

\* the text of a side as executeDiff has to compare it: the text itself
\* with semantic diff off or when its sort fails, the sorted text otherwise
DueText(mode, text) ==
    IF semanticDiff /\ ~FailsToSort(mode, text)
    THEN SortDoc(mode, text, normalizeWhitespace).text
    ELSE text

\* C21: a side that does not parse never blocks the other side: Prettify on
\* both sides formats each non-empty side that parses, whatever the other
\* side holds; executeDiff compares the two texts whatever they hold, and
\* with semantic diff on it compares a side whose sort fails as its text
\* is and the other side as sorted
C21_UnparseableSideNeverBlocks ==
    /\ (lastOp = "format" /\ side = "both") =>
          /\ (content # <<>> /\ ParsesIn(leftMode, content))
                => Prettified(leftContent, leftMode, content)
          /\ (twin # <<>> /\ ParsesIn(rightMode, twin))
                => Prettified(rightContent, rightMode, twin)
    /\ pc = "done" =>
          /\ oldText = DueText(leftMode, leftContent.present)
          /\ newText = DueText(rightMode, rightContent.present)
          /\ comparison.diffMode \in DiffModes
          /\ (oldText # <<>> \/ newText # <<>>)
                => comparison.unifiedLines # <<>>

\* Prettify on both sides with a left side that does not parse and a JSON
\* document on the right, then a semantic diff: the left side is compared
\* as it is, the right side formatted and then sorted
C21_Witness ==
    /\ lastOp = "format" /\ side = "both" /\ pc = "done" /\ semanticDiff
    /\ FailsToSort(leftMode, content) /\ oldText = content
    /\ rightMode = "json" /\ ParsesIn(rightMode, twin)
    /\ rightContent.present # twin
    /\ Prettified(rightContent, rightMode, twin)
    /\ newText # rightContent.present

\* the Sort asked for the side and the side holds a text that its sorter
\* fails on
SortFailsOn(wanted, mode, text) == side \in wanted /\ FailsToSort(mode, text)

\* C22: when a Sort on the left side, the right side or both meets a side
\* whose text cannot be sorted, both sides hold, after the action, the text
\* and the history they held before it, also when the other side of a Sort
\* on both sides was sorted first
C22_FailedSortLeavesBothSides ==
    (/\ lastOp = "sort"
     /\ \/ SortFailsOn({"left", "both"}, leftMode, content)
        \/ SortFailsOn({"right", "both"}, rightMode, twin))
        => /\ leftContent = NewHistory(content)
           /\ rightContent = NewHistory(twin)

---------------------------------------------------------------------------
(* Claims about the split rows of computeDiff, over SpecDiff               *)

\* the kinds that a split row may pair
RowKinds ==
    {<<"unchanged", "unchanged">>, <<"removed", "added">>,
     <<"removed", "phantom">>, <<"phantom", "added">>}

\* the kinds of split row i
RowKind(i) ==
    <<comparison.leftLines[i].type, comparison.rightLines[i].type>>

\* a phantom record has no text and no line number, any other record has
\* a line number
WellNumbered(rec) ==
    IF rec.type = "phantom"
    THEN rec.value = <<>> /\ "lineNumber" \notin DOMAIN rec
    ELSE "lineNumber" \in DOMAIN rec /\ rec.lineNumber \in Nat \ {0}

\* C23: in every result, leftLines and rightLines pair, row by row, as
\* (unchanged, unchanged), (removed, added), (removed, phantom) or
\* (phantom, added); every phantom record has empty text and no line
\* number, every other record has a line number
C23_SplitRowKinds ==
    pc = "done" =>
        /\ \A i \in 1..Len(comparison.leftLines) :
              /\ i <= Len(comparison.rightLines) => RowKind(i) \in RowKinds
              /\ WellNumbered(comparison.leftLines[i])
        /\ \A i \in 1..Len(comparison.rightLines) :
              WellNumbered(comparison.rightLines[i])

\* a result with an unchanged row, a row that pairs a removed line with an
\* added one and a row that pads a removed line with a phantom
C23_Witness ==
    /\ pc = "done"
    /\ Len(comparison.leftLines) = Len(comparison.rightLines)
    /\ {<<"unchanged", "unchanged">>, <<"removed", "added">>,
        <<"removed", "phantom">>}
          \subseteq {RowKind(i) : i \in 1..Len(comparison.leftLines)}

\* the record shows the line of the text that its line number names
ShowsLineOf(rec, text) ==
    rec.type # "phantom" =>
        /\ rec.lineNumber <= Len(SplitNL(text))
        /\ rec.value = SplitNL(text)[rec.lineNumber]

\* C24: for every combination of flags, ignoreWhitespace included, every
\* record of leftLines that is no phantom shows the line of the preprocessed
\* old text at its lineNumber, and every such record of rightLines the line
\* of the preprocessed new text at its lineNumber
C24_TextShownIsOriginal ==
    pc = "done" =>
        /\ \A i \in 1..Len(comparison.leftLines) :
              ShowsLineOf(comparison.leftLines[i], finalOld)
        /\ \A i \in 1..Len(comparison.rightLines) :
              ShowsLineOf(comparison.rightLines[i], finalNew)

---------------------------------------------------------------------------
(* Claims about useUndo, over SpecUndo                                     *)

\* C25: whatever calls of setState, saveSnapshot, setWithHistory, undo, redo
\* and reset were made, past holds at most maxHistory entries
C25_PastAtMostMaxHistory ==
    Len(leftContent.past) <= maxHistory

---------------------------------------------------------------------------
(* Claims about typing and the undo history, over SpecTyping               *)

\* the event of this step is an edit of side s: typing, or a clear
Edits(s) ==
    /\ steps' # steps
    /\ side' = s
    /\ lastOp' \in {"handleLeftChange", "handleRightChange", "clear"}

\* C26: an edit that follows an undo, the only call that fills future,
\* leaves future empty, whether it is made by setWithHistory or by typing
\* (saveSnapshot, then setState)
C26_EditAfterUndoEmptiesFuture ==
    [][/\ Edits("left") => leftContent'.future = <<>>
       /\ Edits("right") => rightContent'.future = <<>>]_vars


\* the event of this step is handleLeftChange / handleRightChange
Types(s) ==
    /\ steps' # steps
    /\ side' = s
    /\ lastOp' \in {"handleLeftChange", "handleRightChange"}

\* the last edit of the side, which set the timer, is less than TypingPause
\* ago
LessThanPauseAgo(timer) ==
    timer # NoTimer /\ clock - (timer.due - TypingPause) < TypingPause

\* the edit of this step saves one snapshot, of the content before it
SavesSnapshot(curr, after) ==
    after.past = PushPast(curr)

\* the edit of this step saves no snapshot
SavesNothing(curr, after) ==
    after.past = curr.past

\* the edit of this step sets the timer anew, TypingPause from now
ReArms(timer) ==
    timer = [due |-> clock' + TypingPause, pending |-> TRUE]

\* C27 as stated: an edit less than 1000 ms after the last one goes on
\* with the burst and saves nothing; any other edit starts a burst and
\* saves the one snapshot of the burst, of the content before it; every
\* edit sets the timer anew
C27_BurstByTime ==
    [][/\ Types("left") =>
             /\ ReArms(leftTimeoutRef')
             /\ IF LessThanPauseAgo(leftTimeoutRef)
                THEN SavesNothing(leftContent, leftContent')
                ELSE SavesSnapshot(leftContent, leftContent')
       /\ Types("right") =>
             /\ ReArms(rightTimeoutRef')
             /\ IF LessThanPauseAgo(rightTimeoutRef)
                THEN SavesNothing(rightContent, rightContent')
                ELSE SavesSnapshot(rightContent, rightContent')]_vars

\* C27, amended: a burst goes on until the timer of its last edit has
\* fired, which it never has when the next edit comes less than 1000 ms
\* after the last one; an edit in the burst saves nothing, the first edit
\* after the timer fired saves the one snapshot of the next burst, of the
\* content before it; every edit sets the timer anew
C27_BurstByTimer ==
    [][/\ LessThanPauseAgo(leftTimeoutRef) => leftTimeoutRef.pending
       /\ LessThanPauseAgo(rightTimeoutRef) => rightTimeoutRef.pending
       /\ Types("left") =>
             /\ ReArms(leftTimeoutRef')
             /\ IF leftTimeoutRef.pending
                THEN SavesNothing(leftContent, leftContent')
                ELSE SavesSnapshot(leftContent, leftContent')
       /\ Types("right") =>
             /\ ReArms(rightTimeoutRef')
             /\ IF rightTimeoutRef.pending
                THEN SavesNothing(rightContent, rightContent')
                ELSE SavesSnapshot(rightContent, rightContent')]_vars

\* two edits of the left side in one burst, the timer fired, and a third
\* edit saved the second snapshot
C27_Witness ==
    /\ lastOp = "handleLeftChange"
    /\ Len(leftContent.present) = 3
    /\ leftContent.past = <<<<>>, SubSeq(leftContent.present, 1, 2)>>
    /\ leftTimeoutRef.pending
    /\ leftTimeoutRef.due > TypingPause

---------------------------------------------------------------------------
(* Claims about the validation effects, over SpecValidationFair            *)

\* the timer the validation effect sets for the render after this step
TimerOfRender(curr, mode) ==
    [due |-> clock' + ValidationDelay, content |-> curr.present,
     mode |-> mode]

\* this step recomputes the error of side s
Validates(s) ==
    /\ lastOp' = "validated"
    /\ side' = s
    /\ (lastOp # "validated" \/ side # s)

\* what holds of one side at every step: a change of its content or mode
\* leaves one timer pending, due ValidationDelay later; a pending timer is
\* for the content and mode of the latest render; the error changes only
\* when a timer's callback runs, not before the timer is due, and becomes
\* the result of validating the side's content in its mode
SideRevalidated(curr, mode, v, error, after, modeAfter, vAfter, errorAfter,
                s) ==
    /\ (after.present # curr.present \/ modeAfter # mode)
          => vAfter.pending = {TimerOfRender(after, modeAfter)}
    /\ \A t \in vAfter.pending :
          t.content = after.present /\ t.mode = modeAfter
    /\ errorAfter # error => Validates(s)
    /\ Validates(s) =>
          /\ errorAfter = Validated(mode, curr.present)
          /\ \A t \in v.pending : clock >= t.due
          /\ vAfter.pending = {}

\* no timer is left and both errors are those of the contents
Settled ==
    /\ leftValidation.pending = {}
    /\ rightValidation.pending = {}
    /\ leftError = Validated(leftMode, leftContent.present)
    /\ rightError = Validated(rightMode, rightContent.present)

\* C28: the error of a side is recomputed ValidationDelay after the side's
\* last change of content or mode, a newer change cancels the pending
\* recomputation, the error is never set from an older content, a
\* recomputation of one side leaves the other side's error alone, and once
\* the changes end each error comes to be that of the side's content in
\* the side's mode, and stays
C28_ErrorFollowsLastChange ==
    /\ [][/\ SideRevalidated(leftContent, leftMode, leftValidation,
                             leftError, leftContent', leftMode',
                             leftValidation', leftError', "left")
          /\ SideRevalidated(rightContent, rightMode, rightValidation,
                             rightError, rightContent', rightMode',
                             rightValidation', rightError', "right")
          /\ Validates("left") => rightError' = rightError
          /\ Validates("right") => leftError' = leftError]_vars
    /\ <>[]Settled

\* the left side was changed while the timer of the first render waited,
\* which the change cancelled, and its error was then set for the new
\* content, which does not parse, ValidationDelay after the change, while
\* the right side waits for its own
C28_Witness ==
    /\ lastOp = "validated"
    /\ side = "left"
    /\ steps = 1
    /\ clock > ValidationDelay
    /\ leftContent.present = <<"{">>
    /\ leftMode = "json"
    /\ leftError = "error"
    /\ leftValidation.t.due = clock
    /\ rightError = "null"
    /\ rightValidation.pending # {}

---------------------------------------------------------------------------
(* Claims about the schema validation effects, over SpecSchema             *)

\* this step ends a call of the validator for side s
EndsCall(s) ==
    /\ lastOp' \in {"schemaThrew", "schemaApplied", "schemaDropped"}
    /\ side' = s

\* what holds of one side at every step: the schema errors change at the
\* end of a call only when the call is the one of the effect's latest run,
\* started for the content, schema, mode and validator as they are now,
\* and become that call's result; a call still active is that one
LatestResultOnly(errors, v, deps, errorsAfter, vAfter, depsAfter, s) ==
    /\ (EndsCall(s) /\ errorsAfter # errors) =>
          /\ v.run \in v.inflight
          /\ vAfter.inflight = v.inflight \ {v.run}
          /\ HasSchemaToCheck(deps)
          /\ v.run = SchemaRun(deps)
          /\ errorsAfter = SchemaErrorsOf(v.run)
    /\ (~EndsCall(s) /\ errorsAfter # errors) =>
          /\ ~HasSchemaToCheck(depsAfter)
          /\ errorsAfter = NoErrors
    /\ \A r \in vAfter.inflight :
          r.active => HasSchemaToCheck(depsAfter) /\ r = SchemaRun(depsAfter)

\* C29: the result of a schema validation is applied to the side's schema
\* errors only when the content, the schema, the mode and the choice of the
\* validator are those the validation was started with, none having
\* changed since; the result of an older validation never replaces them
C29_StaleResultNeverApplied ==
    [][/\ LatestResultOnly(leftSchemaErrors, leftSchema,
                           SchemaDeps(leftContent.present, xsdSchema,
                                      leftMode, useLibxml),
                           leftSchemaErrors', leftSchema',
                           SchemaDeps(leftContent'.present, xsdSchema',
                                      leftMode', useLibxml'), "left")
       /\ LatestResultOnly(rightSchemaErrors, rightSchema,
                           SchemaDeps(rightContent.present, xsdSchema,
                                      rightMode, useLibxml),
                           rightSchemaErrors', rightSchema',
                           SchemaDeps(rightContent'.present, xsdSchema',
                                      rightMode', useLibxml'), "right")]_vars

\* the validation of the left side's latest content was applied, and then
\* an older validation ended, whose result was dropped
C29_Witness ==
    /\ lastOp = "schemaDropped"
    /\ side = "left"
    /\ leftSchema.inflight = {}
    /\ leftSchemaErrors = SchemaErrorsOf(leftSchema.run)
    /\ leftSchema.run.xml = leftContent.present
    /\ leftSchema.run.xsd = xsdSchema

---------------------------------------------------------------------------
(* Claims about the DIFF view, over SpecView                               *)

\* C30: in the DIFF view, whenever isProcessing is false, the comparison
\* stored is a result of computeDiff on the contents as they are under the
\* options as they are
C30_ComparisonCurrentWhenIdle ==
    (viewState = "DIFF" /\ ~isProcessing) =>
       comparison \in Comparisons(DiffClosure(options, diffMode, semanticDiff))

====
